---- MODULE Spec2Model ----
(***************************************************************************)
(* A model of sanger_rename: the per-vendor filename decomposition, the    *)
(* standardized-name formatter, the filename registry, and the wizard      *)
(* (App) with its stages.  Strings are TLA+ strings; a Rust byte index i   *)
(* is the 0-based position i, and s[a..b] is Slice(s, a, b).               *)
(***************************************************************************)
EXTENDS Integers, Sequences, FiniteSets, TLC

(***************************************************************************)
(* Option<T>: None is the empty sequence, Some(x) the one-element one.     *)
(***************************************************************************)
None == <<>>
Some(x) == <<x>>
IsSome(o) == Len(o) = 1
Unwrap(o) == o[1]

\* Result<T, E>
Ok(x) == [ok |-> TRUE, value |-> x]
Err(e) == [ok |-> FALSE, value |-> e]

\* `let v = ...;` : the value is computed once and named in what follows
Bind(v, F(_)) == F(v)

(***************************************************************************)
(* str: byte positions, slices, find / rfind / split                       *)
(***************************************************************************)
NotFound == -1
CharAt(s, i) == SubSeq(s, i + 1, i + 1)
Slice(s, a, b) == SubSeq(s, a + 1, b)
SliceFrom(s, a) == SubSeq(s, a + 1, Len(s))
Contains(s, c) == \E i \in 0..(Len(s) - 1) : CharAt(s, i) = c

find(s, c) ==
    IF Contains(s, c)
    THEN CHOOSE i \in 0..(Len(s) - 1) :
            /\ CharAt(s, i) = c
            /\ \A j \in 0..(i - 1) : CharAt(s, j) # c
    ELSE NotFound

rfind(s, c) ==
    IF Contains(s, c)
    THEN CHOOSE i \in 0..(Len(s) - 1) :
            /\ CharAt(s, i) = c
            /\ \A j \in (i + 1)..(Len(s) - 1) : CharAt(s, j) # c
    ELSE NotFound

RECURSIVE split(_, _)
split(s, c) ==
    LET i == find(s, c)
    IN  IF i = NotFound THEN <<s>>
        ELSE <<Slice(s, 0, i)>> \o split(SliceFrom(s, i + 1), c)

(***************************************************************************)
(* std::path::Path on Unix: file_name, parent, file_stem, extension,       *)
(* with_file_name.  Trailing separators and trailing "." components are    *)
(* dropped by the component iterator; a final ".." has no file name.       *)
(***************************************************************************)
RECURSIVE TrimTrailing(_)
TrimTrailing(p) ==
    LET n == Len(p)
    IN  IF n > 1 /\ CharAt(p, n - 1) = "/" THEN TrimTrailing(Slice(p, 0, n - 1))
        ELSE IF n > 1 /\ Slice(p, n - 2, n) = "/." THEN TrimTrailing(Slice(p, 0, n - 1))
        ELSE p

LastComponent(p) ==
    LET t == TrimTrailing(p)
    IN  SliceFrom(t, rfind(t, "/") + 1)

\* Option<&OsStr>
file_name(p) ==
    Bind(LastComponent(p), LAMBDA l :
        IF l = "" \/ l = ".." \/ l = "." THEN None ELSE Some(l))

\* The path without its final component (PathBuf::pop's result).
parent(p) ==
    Bind(TrimTrailing(p), LAMBDA t :
    Bind(rfind(t, "/"), LAMBDA i :
        IF i = NotFound THEN ""
        ELSE IF i = 0 THEN "/"
        ELSE TrimTrailing(Slice(t, 0, i))))

\* rsplit_file_at_dot: <<before, after>> as Options
rsplit_file_at_dot(name) ==
    Bind(rfind(name, "."), LAMBDA i :
        IF name = ".." THEN <<Some(name), None>>
        ELSE IF i = NotFound THEN <<Some(name), None>>
        ELSE IF i = 0 THEN <<Some(name), None>>
        ELSE <<Some(Slice(name, 0, i)), Some(SliceFrom(name, i + 1))>>)

file_stem(p) ==
    Bind(file_name(p), LAMBDA name :
        IF IsSome(name) THEN rsplit_file_at_dot(Unwrap(name))[1] ELSE None)

extension(p) ==
    Bind(file_name(p), LAMBDA name :
        IF IsSome(name) THEN rsplit_file_at_dot(Unwrap(name))[2] ELSE None)

\* PathBuf::push of a path given as a string
push(buf, name) ==
    IF Len(name) > 0 /\ CharAt(name, 0) = "/" THEN name
    ELSE IF buf = "" THEN name
    ELSE IF CharAt(buf, Len(buf) - 1) = "/" THEN buf \o name
    ELSE buf \o "/" \o name

with_file_name(p, name) ==
    Bind(file_name(p), LAMBDA old :
        IF IsSome(old) THEN push(parent(p), name) ELSE push(p, name))

unwrap_or_default(o) == IF IsSome(o) THEN Unwrap(o) ELSE ""

(***************************************************************************)
(* time::Date: a calendar date [year, month, day]                          *)
(***************************************************************************)
Date(y, m, d) == [year |-> y, month |-> m, day |-> d]

is_leap_year(y) == (y % 4 = 0) /\ ((y % 100 # 0) \/ (y % 400 = 0))

days_in_month(y, m) ==
    IF m \in {4, 6, 9, 11} THEN 30
    ELSE IF m = 2 THEN (IF is_leap_year(y) THEN 29 ELSE 28)
    ELSE 31

next_day(dt) ==
    IF dt.day < days_in_month(dt.year, dt.month) THEN Date(dt.year, dt.month, dt.day + 1)
    ELSE IF dt.month < 12 THEN Date(dt.year, dt.month + 1, 1)
    ELSE Date(dt.year + 1, 1, 1)

previous_day(dt) ==
    IF dt.day > 1 THEN Date(dt.year, dt.month, dt.day - 1)
    ELSE IF dt.month > 1 THEN Date(dt.year, dt.month - 1, days_in_month(dt.year, dt.month - 1))
    ELSE Date(dt.year - 1, 12, 31)

\* Date + n.days() / Date - n.days()
RECURSIVE add_days(_, _)
add_days(dt, n) ==
    IF n = 0 THEN dt
    ELSE IF n > 0 THEN add_days(next_day(dt), n - 1)
    ELSE add_days(previous_day(dt), n + 1)

\* Date::replace_month / replace_year: Result<Date, ComponentRange> as an Option
replace_month(dt, m) ==
    IF dt.day <= days_in_month(dt.year, m) THEN Some(Date(dt.year, m, dt.day)) ELSE None

replace_year(dt, y) ==
    IF dt.day <= days_in_month(y, dt.month) THEN Some(Date(y, dt.month, dt.day)) ELSE None

(***************************************************************************)
(* Integer formatting: i32 remainder (sign of the dividend) and "{:02}"    *)
(***************************************************************************)
rem(a, b) == IF a >= 0 THEN a % b ELSE 0 - ((0 - a) % b)

Digit(n) == SubSeq("0123456789", n + 1, n + 1)

RECURSIVE Decimal(_)
Decimal(n) == IF n < 10 THEN Digit(n) ELSE Decimal(n \div 10) \o Digit(n % 10)

\* format!("{:02}", n): sign-aware zero padding to a minimum width of 2
fmt02(n) ==
    IF n < 0 THEN "-" \o Decimal(0 - n)
    ELSE IF n < 10 THEN "0" \o Decimal(n)
    ELSE Decimal(n)

(***************************************************************************)
(* Vendor and SangerFilename (sanger_filename.rs)                          *)
(***************************************************************************)
\* Vendor::iter() order
Vendors == <<"Sangon", "Ruibio", "Genewiz">>
VendorSet == {Vendors[i] : i \in 1..Len(Vendors)}

UpperCase == "ABCDEFGHIJKLMNOPQRSTUVWXYZ"
LowerCase == "abcdefghijklmnopqrstuvwxyz"

\* char::to_lowercase on the characters of the model: an ASCII capital maps
\* to its small letter, every other character to itself
lower_char(c) ==
    IF Contains(UpperCase, c) THEN CharAt(LowerCase, find(UpperCase, c)) ELSE c

\* a variant that leaves the case of the string as it is
to_lowercase_id(s) == s

\* str::to_lowercase
RECURSIVE to_lowercase(_)
to_lowercase(s) ==
    IF s = "" THEN "" ELSE lower_char(CharAt(s, 0)) \o to_lowercase(SliceFrom(s, 1))

\* Vendor::from_str
from_str(s) ==
    Bind(to_lowercase(s), LAMBDA l :
        IF l = "sangon" THEN Ok("Sangon")
        ELSE IF l = "ruibio" THEN Ok("Ruibio")
        ELSE IF l = "genewiz" THEN Ok("Genewiz")
        ELSE Err("Unknown vendor: " \o s))

get_full_path(sf) == sf.filename
get_file_stem(sf) == unwrap_or_default(file_stem(get_full_path(sf)))
get_extension_name(sf) == unwrap_or_default(extension(get_full_path(sf)))

\* a variant of the guard that lets a closing delimiter precede the opening one
closes_anywhere(start, end) == TRUE

\* `if end > start`
closes_after(start, end) == end > start

\* &s[a..b] panics when the range is reversed or runs past the end
slice_panics(s, a, b) == a > b \/ b > Len(s)

extract_sangon_template_name(sf) ==
    Bind(find(sf.filename, "("), LAMBDA start :
    Bind(find(sf.filename, ")"), LAMBDA end :
        IF start # NotFound /\ end # NotFound /\ closes_after(start, end)
        THEN Slice(sf.filename, start + 1, end)
        ELSE ""))

extract_sangon_primer_name(sf) ==
    Bind(get_file_stem(sf), LAMBDA filestem :
    Bind(find(filestem, "["), LAMBDA start :
    Bind(find(filestem, "]"), LAMBDA end :
        IF start # NotFound /\ end # NotFound /\ closes_after(start, end)
        THEN Slice(filestem, start + 1, end)
        ELSE "")))

\* a variant that takes the first token, not the second
extract_sangon_vendor_id_first(sf) ==
    Bind(split(get_file_stem(sf), "_"), LAMBDA parts :
        IF Len(parts) >= 2 THEN parts[1] ELSE "")

extract_sangon_vendor_id(sf) ==
    Bind(split(get_file_stem(sf), "_"), LAMBDA parts :
        IF Len(parts) >= 2 THEN parts[2] ELSE "")

extract_ruibio_template_name(sf) ==
    Bind(get_file_stem(sf), LAMBDA filestem :
    Bind(find(filestem, "."), LAMBDA first_dot :
        IF first_dot # NotFound THEN Slice(filestem, 0, first_dot) ELSE ""))

extract_ruibio_primer_name(sf) ==
    Bind(split(get_file_stem(sf), "."), LAMBDA parts :
        IF Len(parts) >= 2 THEN parts[2] ELSE "")

extract_ruibio_vendor_id(sf) ==
    Bind(split(get_file_stem(sf), "."), LAMBDA parts :
        IF Len(parts) >= 3 THEN parts[Len(parts) - 1] \o "." \o parts[Len(parts)] ELSE "")

\* a variant that takes the first underscore, not the last
find_underscore(filestem) == find(filestem, "_")

\* filestem.rfind('_')
rfind_underscore(filestem) == rfind(filestem, "_")

extract_genewiz_template_name(sf) ==
    Bind(get_file_stem(sf), LAMBDA filestem :
    Bind(rfind_underscore(filestem), LAMBDA underscore_pos :
        IF underscore_pos # NotFound
        THEN Bind(rfind(Slice(filestem, 0, underscore_pos), "-"), LAMBDA dash_pos :
                 IF dash_pos # NotFound THEN Slice(filestem, 0, dash_pos) ELSE "")
        ELSE ""))

\* a variant that starts the primer after the first dash, not the last
extract_genewiz_primer_name_first_dash(sf) ==
    Bind(get_file_stem(sf), LAMBDA filestem :
    Bind(rfind_underscore(filestem), LAMBDA underscore_pos :
        IF underscore_pos # NotFound
        THEN Bind(find(Slice(filestem, 0, underscore_pos), "-"), LAMBDA dash_pos :
                 IF dash_pos # NotFound
                 THEN Slice(filestem, dash_pos + 1, underscore_pos)
                 ELSE "")
        ELSE ""))

extract_genewiz_primer_name(sf) ==
    Bind(get_file_stem(sf), LAMBDA filestem :
    Bind(rfind_underscore(filestem), LAMBDA underscore_pos :
        IF underscore_pos # NotFound
        THEN Bind(rfind(Slice(filestem, 0, underscore_pos), "-"), LAMBDA dash_pos :
                 IF dash_pos # NotFound
                 THEN Slice(filestem, dash_pos + 1, underscore_pos)
                 ELSE "")
        ELSE ""))

extract_genewiz_vendor_id(sf) ==
    Bind(get_file_stem(sf), LAMBDA filestem :
    Bind(rfind_underscore(filestem), LAMBDA underscore_pos :
        IF underscore_pos # NotFound
        THEN SliceFrom(filestem, underscore_pos + 1)
        ELSE ""))

get_template_name(sf) ==
    IF sf.template_name # "" THEN sf.template_name
    ELSE IF sf.vendor = "Sangon" THEN extract_sangon_template_name(sf)
    ELSE IF sf.vendor = "Ruibio" THEN extract_ruibio_template_name(sf)
    ELSE extract_genewiz_template_name(sf)

\* a variant that returns the stored label, empty or not
get_primer_name_stored(sf) == sf.primer_name

get_primer_name(sf) ==
    IF sf.primer_name # "" THEN sf.primer_name
    ELSE IF sf.vendor = "Sangon" THEN extract_sangon_primer_name(sf)
    ELSE IF sf.vendor = "Ruibio" THEN extract_ruibio_primer_name(sf)
    ELSE extract_genewiz_primer_name(sf)

get_vendor_id(sf) ==
    IF sf.vendor = "Sangon" THEN extract_sangon_vendor_id(sf)
    ELSE IF sf.vendor = "Ruibio" THEN extract_ruibio_vendor_id(sf)
    ELSE extract_genewiz_vendor_id(sf)

\* a variant that stores the label as the template label too
set_primer_name_both(sf, primer_name) ==
    [sf EXCEPT !.primer_name = primer_name, !.template_name = primer_name]

set_primer_name(sf, primer_name) == [sf EXCEPT !.primer_name = primer_name]
set_template_name(sf, template_name) == [sf EXCEPT !.template_name = template_name]
set_date(sf, dt) == [sf EXCEPT !.date = Some(dt)]

new(filename, vendor) ==
    Bind([filename |-> filename, primer_name |-> "", template_name |-> "",
          date |-> None, vendor |-> vendor], LAMBDA sanger_filename :
        [sanger_filename EXCEPT !.primer_name = get_primer_name(sanger_filename),
                                !.template_name = get_template_name(sanger_filename)])

\* a variant that keeps the labels held before the switch
set_vendor_keep(sf, vendor) == [sf EXCEPT !.vendor = vendor]

set_vendor(sf, vendor) ==
    Bind([sf EXCEPT !.vendor = vendor, !.primer_name = "", !.template_name = ""],
         LAMBDA cleared :
        [cleared EXCEPT !.primer_name = get_primer_name(cleared),
                        !.template_name = get_template_name(cleared)])

\* Whether a slice expression of the extraction that `vendor` selects panics
\* on the entry; SangerFilename::new and the three getters run these slices.
extract_panics(sf) ==
    Bind(get_file_stem(sf), LAMBDA filestem :
        IF sf.vendor = "Sangon" THEN
            \/ Bind(find(sf.filename, "("), LAMBDA start :
               Bind(find(sf.filename, ")"), LAMBDA end :
                   /\ start # NotFound /\ end # NotFound /\ closes_after(start, end)
                   /\ slice_panics(sf.filename, start + 1, end)))
            \/ Bind(find(filestem, "["), LAMBDA start :
               Bind(find(filestem, "]"), LAMBDA end :
                   /\ start # NotFound /\ end # NotFound /\ closes_after(start, end)
                   /\ slice_panics(filestem, start + 1, end)))
        ELSE IF sf.vendor = "Ruibio" THEN
            Bind(find(filestem, "."), LAMBDA first_dot :
                first_dot # NotFound /\ slice_panics(filestem, 0, first_dot))
        ELSE
            Bind(rfind_underscore(filestem), LAMBDA underscore_pos :
                /\ underscore_pos # NotFound
                /\ \/ slice_panics(filestem, 0, underscore_pos)
                   \/ slice_panics(filestem, underscore_pos + 1, Len(filestem))
                   \/ Bind(rfind(Slice(filestem, 0, underscore_pos), "-"), LAMBDA dash_pos :
                          /\ dash_pos # NotFound
                          /\ \/ slice_panics(filestem, 0, dash_pos)
                             \/ slice_panics(filestem, dash_pos + 1, underscore_pos))))

\* date_str of get_standardized_name
date_str(dt) == fmt02(rem(dt.year, 100)) \o fmt02(dt.month) \o fmt02(dt.day)

\* a variant that takes the local date whether or not a date is stamped
get_standardized_name_now(sf, now) ==
    date_str(now) \o "." \o get_template_name(sf) \o "." \o get_primer_name(sf)

\* `now` is the local date at the time of the call
get_standardized_name(sf, now) ==
    Bind(IF IsSome(sf.date) THEN Unwrap(sf.date) ELSE now, LAMBDA dt :
        date_str(dt) \o "." \o get_template_name(sf) \o "." \o get_primer_name(sf))

\* new_path of move_to_standardized_name: the destination handed to fs::rename
standardized_path(sf, now) ==
    with_file_name(get_full_path(sf), get_standardized_name(sf, now))
        \o "." \o get_extension_name(sf)

(***************************************************************************)
(* The per-vendor implementations of the SangerFilename trait (lib.rs,     *)
(* vendors/ruibio.rs, vendors/sangon.rs).  Their getters extract from the  *)
(* filename on every call.                                                 *)
(***************************************************************************)
\* the trait's default get_file_stem
trait_get_file_stem(full_path) == unwrap_or_default(file_stem(full_path))

RuibioSangerFilename_get_template_name(filename) ==
    Bind(find(filename, "."), LAMBDA first_dot :
        IF first_dot # NotFound THEN Slice(filename, 0, first_dot) ELSE "")

RuibioSangerFilename_get_primer_name(filename) ==
    Bind(split(trait_get_file_stem(filename), "."), LAMBDA parts :
        IF Len(parts) >= 2 THEN parts[2] ELSE "")

RuibioSangerFilename_get_vendor_id(filename) ==
    Bind(split(trait_get_file_stem(filename), "."), LAMBDA parts :
        IF Len(parts) >= 3 THEN parts[Len(parts) - 1] \o "." \o parts[Len(parts)] ELSE "")

\* From<String>: the labels are extracted once and stored
RuibioSangerFilename_from(filename) ==
    [filename |-> filename,
     primer_name |-> RuibioSangerFilename_get_primer_name(filename),
     template_name |-> RuibioSangerFilename_get_template_name(filename),
     date |-> None]

SangonSangerFilename_get_template_name(filename) ==
    Bind(find(filename, "("), LAMBDA start :
    Bind(find(filename, ")"), LAMBDA end :
        IF start # NotFound /\ end # NotFound /\ end > start
        THEN Slice(filename, start + 1, end)
        ELSE ""))

SangonSangerFilename_get_primer_name(filename) ==
    Bind(trait_get_file_stem(filename), LAMBDA filestem :
    Bind(find(filestem, "["), LAMBDA start :
    Bind(find(filestem, "]"), LAMBDA end :
        IF start # NotFound /\ end # NotFound /\ end > start
        THEN Slice(filestem, start + 1, end)
        ELSE "")))

SangonSangerFilename_get_vendor_id(filename) ==
    Bind(split(trait_get_file_stem(filename), "_"), LAMBDA parts :
        IF Len(parts) >= 2 THEN parts[2] ELSE "")

SangonSangerFilename_from(filename) == [filename |-> filename]

\* The disk is the set of files on it; a directory exists when it holds a file.
DirsOf(files) == { parent(f) : f \in files }

\* std::fs::rename: Ok as Some(the files afterwards), Err as None
rename(files, from, to) ==
    IF from \in files /\ parent(to) \in DirsOf(files)
    THEN Some((files \ {from}) \cup {to})
    ELSE None

\* move_to_standardized_name(&self): the entry itself is not changed
move_to_standardized_name(sf, now, files) ==
    rename(files, get_full_path(sf), standardized_path(sf, now))

\* the record of one call: the arguments given to fs::rename and its outcome
MoveRecord(sf, now, ok) ==
    [from |-> get_full_path(sf), to |-> standardized_path(sf, now), ok |-> ok]

\* the calls of move_to_standardized_name a handler makes, in order, on the disk:
\* <<files afterwards, records>>
RECURSIVE perform_moves(_, _, _, _)
perform_moves(entries, now, files, log) ==
    IF entries = <<>> THEN <<files, log>>
    ELSE Bind(move_to_standardized_name(Head(entries), now, files), LAMBDA r :
             perform_moves(Tail(entries), now,
                           IF IsSome(r) THEN Unwrap(r) ELSE files,
                           Append(log, MoveRecord(Head(entries), now, IsSome(r)))))

(***************************************************************************)
(* Bounds and input sets of the model                                      *)
(***************************************************************************)
\* longest edit buffer the operator types in the primer stage
MaxInput == 2
\* longest edit buffer the operator types in the template stage
MaxTemplateInput == 1
\* date-navigation key presses per DateSelection / ConfirmRename session
MaxDateMoves == 1
\* calls of move_to_standardized_name a client of SangerFilename makes
MaxMoves == 1
\* longest file stem drawn for the decomposition functions
MaxStemLen == 4
\* longest file stem of the raw filenames given to the constructors
MaxRawLen == 4
\* most pending raw filenames a client of App adds
MaxPending == 2

\* KeyCode: a named key is its name, KeyCode::Char(c) is the one-character string c
NamedKeys == {"Up", "Down", "Left", "Right", "Enter", "Esc", "Tab", "BackTab", "Backspace"}
CharKeys == {"h", "j", "k", "l", "n", "p", "q", "B"}
KeyCodes == NamedKeys \cup CharKeys
\* the key events read: every press, and the release of one key
KeyEvents == { <<"Press", code>> : code \in KeyCodes } \cup { <<"Release", "Enter">> }
IsChar(code) == Len(code) = 1
\* characters the operator types into an edit buffer
EditChars == {"B"}

\* The file lists the wizard is started with (command-line arguments)
FileLists ==
    { <<"d/T-B_1.ab1", "d/T-BB_2.ab1">>,
      <<"d/T-B_1.ab1", "d/T-B_1.ab1">>,
      <<"d/0_1_(T)_[B].ab1">> }

\* The local date of the session
Todays == { Date(2025, 1, 31) }

\* Inputs of the SangerFilename API
FileInputs == {"d/T-B_1.ab1", "d/0_1_(T)_[B].ab1", "T-B_1"}
LabelInputs == {"M/p", ""}
DateInputs == { Date(2005, 12, 6), Date(-5, 1, 2) }

\* Characters of the file stems drawn for the decomposition functions
StemChars == {"a", "-", "_", "."}

\* Vendor strings given to Vendor::from_str: every mix of upper and lower
\* case of the three names, and strings that are none of them
upper_char(c) ==
    IF Contains(LowerCase, c) THEN CharAt(UpperCase, find(LowerCase, c)) ELSE c

RECURSIVE CaseMixes(_)
CaseMixes(w) ==
    IF w = "" THEN {""}
    ELSE { c \o rest : c \in {CharAt(w, 0), upper_char(CharAt(w, 0))},
                       rest \in CaseMixes(SliceFrom(w, 1)) }

VendorStrings ==
    CaseMixes("sangon") \cup CaseMixes("ruibio") \cup CaseMixes("genewiz")
        \cup {"", " ", "unknown", " sangon", "sangon ", " Ruibio ", "sango", "sangonn",
              "gene wiz", "ruibi0", "sangon,ruibio", "GENEWIZ\n"}

\* Raw filenames given to the constructors: a directory (none, plain, or with
\* a '.' in its name), a stem over the delimiters of the Sangon and Ruibio
\* patterns, and an extension or none
RawChars == {"a", ".", "_", "(", ")", "[", "]"}

(***************************************************************************)
(* State                                                                   *)
(***************************************************************************)
VARIABLES
    stage,            \* App.stage
    should_quit,      \* App.should_quit
    str_fns,          \* App.str_fns.filenames
    sanger_fns,       \* the shared registry: SangerFilenames.filenames
    vendor_selection, \* VendorSelectionStage
    primer_rename,    \* PrimerRenameStage; `order` is the HashMap's iteration order
    template_rename,  \* TemplateRenameStage
    date_selection,   \* DateSelectionStage
    confirm_rename,   \* ConfirmRenameStage (never constructed by App)
    transition,       \* the StageTransition returned by a stage handler that is driven
                      \* without App
    panicked,         \* an unwrap() / expect() failed: the process aborted
    today,            \* the local date (OffsetDateTime::now_local)
    fs,               \* the files that exist on disk
    moves,            \* the std::fs::rename calls made so far
    date_moves,       \* navigation presses in the current date session
    last_call         \* the last call a client made on the library or on App, with
                      \* its argument and what it returned; None in the wizard

vars == <<stage, should_quit, str_fns, sanger_fns, vendor_selection, primer_rename,
          template_rename, date_selection, confirm_rename, transition, panicked,
          today, fs, moves, date_moves, last_call>>

Stages == {"VendorSelection", "PrimerRename", "TemplateRename", "DateSelection",
           "ConfirmRename"}

\* StageTransition
Stay == [kind |-> "Stay", stage |-> ""]
NextT(s) == [kind |-> "Next", stage |-> s]
PreviousT(s) == [kind |-> "Previous", stage |-> s]
\* a variant of Quit that retreats to the first stage
QuitAndRetreat == [kind |-> "Previous", stage |-> "VendorSelection"]
Quit == [kind |-> "Quit", stage |-> ""]

(***************************************************************************)
(* SangerFilenames (tui/common.rs)                                         *)
(***************************************************************************)
HasPath(filenames, path) ==
    \E i \in 1..Len(filenames) : get_full_path(filenames[i]) = path

\* a variant without the full_path guard
add_filename_push(filenames, filename) == Append(filenames, filename)

add_filename(filenames, filename) ==
    IF ~HasPath(filenames, get_full_path(filename))
    THEN Append(filenames, filename)
    ELSE filenames

from_str_filenames(str_filenames, vendor) ==
    [i \in 1..Len(str_filenames) |-> new(str_filenames[i], vendor)]

\* App::filenames_string_to_sanger: Ok(registry), or Err ("No vendor selected") as None
RECURSIVE filenames_string_to_sanger(_, _, _)
filenames_string_to_sanger(strs, selected_vendor, filenames) ==
    IF strs = <<>> THEN Some(filenames)
    ELSE IF ~IsSome(selected_vendor) THEN None
    ELSE filenames_string_to_sanger(Tail(strs), selected_vendor,
            add_filename(filenames, new(Head(strs), Unwrap(selected_vendor))))

(***************************************************************************)
(* VendorSelectionStage (tui/vendor_selection.rs)                          *)
(***************************************************************************)
\* a variant built with the cursor on the second vendor
VendorSelectionStage_new_second == [highlighted |-> 1, selected_vendor |-> None]

VendorSelectionStage_new == [highlighted |-> 0, selected_vendor |-> None]

\* variants: every index gives the first vendor; the last index gives none
from_index_first(index) == Some(Vendors[1])
from_index_short(index) ==
    IF index < Len(Vendors) - 1 THEN Some(Vendors[index + 1]) ELSE None

from_index(index) == IF index < Len(Vendors) THEN Some(Vendors[index + 1]) ELSE None

set_highlighted(vs, index) ==
    IF index < Len(Vendors) THEN [vs EXCEPT !.highlighted = index] ELSE vs

set_selected_vendor(vs, vendor) == [vs EXCEPT !.selected_vendor = vendor]

\* a variant in which Esc and 'q' are ignored
VendorSelection_handle_key_noquit(vs, code) ==
    IF code = "Enter" THEN
        << set_selected_vendor(vs, from_index(vs.highlighted)), NextT("PrimerRename") >>
    ELSE <<vs, Stay>>

\* a variant whose cursor stops at the ends of the list
VendorSelection_handle_key_clamped(vs, code) ==
    IF code \in {"Left", "h"} THEN
        << IF vs.highlighted = 0 THEN vs
           ELSE set_highlighted(vs, vs.highlighted - 1), Stay >>
    ELSE IF code \in {"Right", "l"} THEN
        << IF vs.highlighted = Len(Vendors) - 1 THEN vs
           ELSE set_highlighted(vs, vs.highlighted + 1), Stay >>
    ELSE IF code = "Enter" THEN
        << set_selected_vendor(vs, from_index(vs.highlighted)),
           NextT("PrimerRename") >>
    ELSE IF code \in {"Esc", "q"} THEN <<vs, Quit>>
    ELSE <<vs, Stay>>

\* returns <<stage state, transition>>
VendorSelection_handle_key(vs, code) ==
    IF code \in {"Left", "h"} THEN
        << IF vs.highlighted = 0 THEN set_highlighted(vs, Len(Vendors) - 1)
           ELSE set_highlighted(vs, vs.highlighted - 1), Stay >>
    ELSE IF code \in {"Right", "l"} THEN
        << IF vs.highlighted = Len(Vendors) - 1 THEN set_highlighted(vs, 0)
           ELSE set_highlighted(vs, vs.highlighted + 1), Stay >>
    ELSE IF code = "Enter" THEN
        << set_selected_vendor(vs, from_index(vs.highlighted)),
           NextT("PrimerRename") >>
    ELSE IF code \in {"Esc", "q"} THEN <<vs, Quit>>
    ELSE <<vs, Stay>>

(***************************************************************************)
(* PrimerRenameStage (tui/primer_rename.rs)                                *)
(***************************************************************************)
\* every iteration order a HashMap with these keys can have
KeyOrders(keys) ==
    { o \in [1..Cardinality(keys) -> keys] :
        \A i, j \in 1..Cardinality(keys) : o[i] = o[j] => i = j }

PrimerRenameStage_init ==
    [order |-> <<>>, rename_map |-> <<>>, highlighted |-> 0, editing |-> FALSE,
     current_input |-> ""]

\* a variant that seeds one key per file, keyed by the file's path
primer_fill_names_per_file(filenames) ==
    [k \in { filenames[i].filename : i \in 1..Len(filenames) } |-> None]

\* a variant that seeds the keys from the vendor's extraction of each filename
primer_fill_names_extracted(filenames) ==
    [k \in { get_primer_name(new(filenames[i].filename, filenames[i].vendor)) :
               i \in 1..Len(filenames) } |-> None]

\* fill_names: one key per distinct primer label, every value None
primer_fill_names(filenames) ==
    LET keys == { get_primer_name(filenames[i]) : i \in 1..Len(filenames) }
    IN  [k \in keys |-> None]

\* a variant that refills the map of the stage already there and keeps its
\* cursor, edit mode and buffer
PrimerRenameStage_from_sanger_fns_kept(filenames) ==
    { [primer_rename EXCEPT !.rename_map = primer_fill_names(filenames), !.order = o] :
        o \in KeyOrders(DOMAIN primer_fill_names(filenames)) }

\* the stages from_sanger_fns can build: the map's iteration order is unspecified
PrimerRenameStage_from_sanger_fns(filenames) ==
    Bind(primer_fill_names(filenames), LAMBDA names :
        { [PrimerRenameStage_init EXCEPT !.rename_map = names, !.order = o] :
            o \in KeyOrders(DOMAIN names) })

\* HashMap::insert of a key that is already present
set_rename(rename_map, primer_name, new_name) ==
    [rename_map EXCEPT ![primer_name] = new_name]

\* An insert may grow and rehash a table that is full (3 of 4 buckets used),
\* even when the key is present; smaller tables keep their iteration order.
OrdersAfterInsert(order) ==
    IF Len(order) >= 3 THEN KeyOrders({order[i] : i \in 1..Len(order)}) ELSE {order}

\* a variant whose loop stops after the first entry
primer_apply_rename_map_first(filenames, rename_map) ==
    [i \in 1..Len(filenames) |->
        IF /\ i = 1
           /\ get_primer_name(filenames[i]) \in DOMAIN rename_map
           /\ IsSome(rename_map[get_primer_name(filenames[i])])
        THEN set_primer_name(filenames[i],
                             Unwrap(rename_map[get_primer_name(filenames[i])]))
        ELSE filenames[i]]

\* the loop over the registry after a commit (lines 69-76)
primer_apply_rename_map(filenames, rename_map) ==
    [i \in 1..Len(filenames) |->
        Bind(get_primer_name(filenames[i]), LAMBDA old_primer_name :
            IF old_primer_name \in DOMAIN rename_map /\ IsSome(rename_map[old_primer_name])
            THEN set_primer_name(filenames[i], Unwrap(rename_map[old_primer_name]))
            ELSE filenames[i])]

\* String::pop
pop(str) == IF str = "" THEN "" ELSE Slice(str, 0, Len(str) - 1)

\* a variant that stores the buffer as the override even when it is empty
primer_commit_verbatim(pr, filenames) ==
    LET has_key == pr.highlighted < Len(pr.order)
        map1 == IF has_key
                THEN set_rename(pr.rename_map, pr.order[pr.highlighted + 1],
                                Some(pr.current_input))
                ELSE pr.rename_map
    IN  { << [pr EXCEPT !.rename_map = map1, !.order = o, !.editing = FALSE,
                        !.current_input = ""],
             primer_apply_rename_map(filenames, map1), Stay >> :
          o \in IF has_key THEN OrdersAfterInsert(pr.order) ELSE {pr.order} }

\* the Enter arm of edit mode (lines 58-80)
primer_commit(pr, filenames) ==
    LET has_key == pr.highlighted < Len(pr.order)
        new_name == IF pr.current_input = "" THEN None ELSE Some(pr.current_input)
        map1 == IF has_key
                THEN set_rename(pr.rename_map, pr.order[pr.highlighted + 1], new_name)
                ELSE pr.rename_map
    IN  { << [pr EXCEPT !.rename_map = map1, !.order = o, !.editing = FALSE,
                        !.current_input = ""],
             primer_apply_rename_map(filenames, map1), Stay >> :
          o \in IF has_key THEN OrdersAfterInsert(pr.order) ELSE {pr.order} }

\* a variant that enters edit mode without the pre-fill
primer_begin_edit_blank(pr) == [pr EXCEPT !.editing = TRUE]

\* the Enter arm of browse mode (lines 110-120)
primer_begin_edit(pr) ==
    LET has_key == pr.highlighted < Len(pr.order)
        existing == IF has_key THEN pr.rename_map[pr.order[pr.highlighted + 1]] ELSE None
    IN  [pr EXCEPT !.editing = TRUE,
                   !.current_input = IF IsSome(existing) THEN Unwrap(existing) ELSE @]

\* a variant without the subtraction
saturating_pred_none(n) == n

\* saturating_sub(1)
saturating_pred(n) == IF n = 0 THEN 0 ELSE n - 1

\* a variant whose Esc in edit mode commits the buffer as Enter does
PrimerRename_handle_key_esc_commits(pr, filenames, code) ==
    IF pr.editing THEN
        IF code \in {"Enter", "Esc"} THEN primer_commit(pr, filenames)
        ELSE IF code = "Backspace" THEN
            {<<[pr EXCEPT !.current_input = pop(@)], filenames, Stay>>}
        ELSE IF IsChar(code) THEN
            {<<[pr EXCEPT !.current_input = @ \o code], filenames, Stay>>}
        ELSE {<<pr, filenames, Stay>>}
    ELSE
        IF code = "Enter" THEN {<<primer_begin_edit(pr), filenames, Stay>>}
        ELSE IF code \in {"Esc", "q"} THEN {<<pr, filenames, Quit>>}
        ELSE IF code \in {"Tab", "n"} THEN {<<pr, filenames, NextT("TemplateRename")>>}
        ELSE IF code \in {"BackTab", "p"} THEN
            {<<pr, filenames, PreviousT("VendorSelection")>>}
        ELSE {<<pr, filenames, Stay>>}

\* a variant in which 'q' quits in edit mode too
PrimerRename_handle_key_q_quits(pr, filenames, code) ==
    IF pr.editing THEN
        IF code = "Enter" THEN primer_commit(pr, filenames)
        ELSE IF code = "q" THEN {<<pr, filenames, Quit>>}
        ELSE IF code = "Esc" THEN
            {<<[pr EXCEPT !.editing = FALSE, !.current_input = ""], filenames, Stay>>}
        ELSE IF code = "Backspace" THEN
            {<<[pr EXCEPT !.current_input = pop(@)], filenames, Stay>>}
        ELSE IF IsChar(code) THEN
            {<<[pr EXCEPT !.current_input = @ \o code], filenames, Stay>>}
        ELSE {<<pr, filenames, Stay>>}
    ELSE
        IF code \in {"Up", "k"} THEN
            {<<[pr EXCEPT !.highlighted = IF @ > 0 THEN @ - 1 ELSE @], filenames, Stay>>}
        ELSE IF code \in {"Down", "j"} THEN
            {<<[pr EXCEPT !.highlighted =
                    IF @ < saturating_pred(Cardinality(DOMAIN pr.rename_map))
                    THEN @ + 1 ELSE @], filenames, Stay>>}
        ELSE IF code = "Enter" THEN {<<primer_begin_edit(pr), filenames, Stay>>}
        ELSE IF code \in {"Esc", "q"} THEN {<<pr, filenames, Quit>>}
        ELSE IF code \in {"Tab", "n"} THEN {<<pr, filenames, NextT("TemplateRename")>>}
        ELSE IF code \in {"BackTab", "p"} THEN
            {<<pr, filenames, PreviousT("VendorSelection")>>}
        ELSE {<<pr, filenames, Stay>>}

\* a variant whose Esc leaves edit mode without clearing the buffer
PrimerRename_handle_key_esc_keeps(pr, filenames, code) ==
    IF pr.editing THEN
        IF code = "Enter" THEN primer_commit(pr, filenames)
        ELSE IF code = "Esc" THEN
            {<<[pr EXCEPT !.editing = FALSE], filenames, Stay>>}
        ELSE IF code = "Backspace" THEN
            {<<[pr EXCEPT !.current_input = pop(@)], filenames, Stay>>}
        ELSE IF IsChar(code) THEN
            {<<[pr EXCEPT !.current_input = @ \o code], filenames, Stay>>}
        ELSE {<<pr, filenames, Stay>>}
    ELSE
        IF code \in {"Up", "k"} THEN
            {<<[pr EXCEPT !.highlighted = IF @ > 0 THEN @ - 1 ELSE @], filenames, Stay>>}
        ELSE IF code \in {"Down", "j"} THEN
            {<<[pr EXCEPT !.highlighted =
                    IF @ < saturating_pred(Cardinality(DOMAIN pr.rename_map))
                    THEN @ + 1 ELSE @], filenames, Stay>>}
        ELSE IF code = "Enter" THEN {<<primer_begin_edit(pr), filenames, Stay>>}
        ELSE IF code \in {"Esc", "q"} THEN {<<pr, filenames, Quit>>}
        ELSE IF code \in {"Tab", "n"} THEN {<<pr, filenames, NextT("TemplateRename")>>}
        ELSE IF code \in {"BackTab", "p"} THEN
            {<<pr, filenames, PreviousT("VendorSelection")>>}
        ELSE {<<pr, filenames, Stay>>}

\* the set of <<stage state, registry, transition>> the handler can produce
PrimerRename_handle_key(pr, filenames, code) ==
    IF pr.editing THEN
        IF code = "Enter" THEN primer_commit(pr, filenames)
        ELSE IF code = "Esc" THEN
            {<<[pr EXCEPT !.editing = FALSE, !.current_input = ""], filenames, Stay>>}
        ELSE IF code = "Backspace" THEN
            {<<[pr EXCEPT !.current_input = pop(@)], filenames, Stay>>}
        ELSE IF IsChar(code) THEN
            {<<[pr EXCEPT !.current_input = @ \o code], filenames, Stay>>}
        ELSE {<<pr, filenames, Stay>>}
    ELSE
        IF code \in {"Up", "k"} THEN
            {<<[pr EXCEPT !.highlighted = IF @ > 0 THEN @ - 1 ELSE @], filenames, Stay>>}
        ELSE IF code \in {"Down", "j"} THEN
            {<<[pr EXCEPT !.highlighted =
                    IF @ < saturating_pred(Cardinality(DOMAIN pr.rename_map))
                    THEN @ + 1 ELSE @], filenames, Stay>>}
        ELSE IF code = "Enter" THEN {<<primer_begin_edit(pr), filenames, Stay>>}
        ELSE IF code \in {"Esc", "q"} THEN {<<pr, filenames, Quit>>}
        ELSE IF code \in {"Tab", "n"} THEN {<<pr, filenames, NextT("TemplateRename")>>}
        ELSE IF code \in {"BackTab", "p"} THEN
            {<<pr, filenames, PreviousT("VendorSelection")>>}
        ELSE {<<pr, filenames, Stay>>}

(***************************************************************************)
(* TemplateRenameStage (tui/template_rename.rs): the same stage over the   *)
(* template labels; Tab advances to DateSelection, BackTab retreats to     *)
(* PrimerRename.                                                           *)
(***************************************************************************)
TemplateRenameStage_init == PrimerRenameStage_init

template_fill_names(filenames) ==
    LET keys == { get_template_name(filenames[i]) : i \in 1..Len(filenames) }
    IN  [k \in keys |-> None]

TemplateRenameStage_from_sanger_fns(filenames) ==
    Bind(template_fill_names(filenames), LAMBDA names :
        { [TemplateRenameStage_init EXCEPT !.rename_map = names, !.order = o] :
            o \in KeyOrders(DOMAIN names) })

template_apply_rename_map(filenames, rename_map) ==
    [i \in 1..Len(filenames) |->
        Bind(get_template_name(filenames[i]), LAMBDA old_name :
            IF old_name \in DOMAIN rename_map /\ IsSome(rename_map[old_name])
            THEN set_template_name(filenames[i], Unwrap(rename_map[old_name]))
            ELSE filenames[i])]

template_commit(tr, filenames) ==
    LET has_key == tr.highlighted < Len(tr.order)
        new_name == IF tr.current_input = "" THEN None ELSE Some(tr.current_input)
        map1 == IF has_key
                THEN set_rename(tr.rename_map, tr.order[tr.highlighted + 1], new_name)
                ELSE tr.rename_map
    IN  { << [tr EXCEPT !.rename_map = map1, !.order = o, !.editing = FALSE,
                        !.current_input = ""],
             template_apply_rename_map(filenames, map1), Stay >> :
          o \in IF has_key THEN OrdersAfterInsert(tr.order) ELSE {tr.order} }

TemplateRename_handle_key(tr, filenames, code) ==
    IF tr.editing THEN
        IF code = "Enter" THEN template_commit(tr, filenames)
        ELSE IF code = "Esc" THEN
            {<<[tr EXCEPT !.editing = FALSE, !.current_input = ""], filenames, Stay>>}
        ELSE IF code = "Backspace" THEN
            {<<[tr EXCEPT !.current_input = pop(@)], filenames, Stay>>}
        ELSE IF IsChar(code) THEN
            {<<[tr EXCEPT !.current_input = @ \o code], filenames, Stay>>}
        ELSE {<<tr, filenames, Stay>>}
    ELSE
        IF code \in {"Up", "k"} THEN
            {<<[tr EXCEPT !.highlighted = IF @ > 0 THEN @ - 1 ELSE @], filenames, Stay>>}
        ELSE IF code \in {"Down", "j"} THEN
            {<<[tr EXCEPT !.highlighted =
                    IF @ < saturating_pred(Cardinality(DOMAIN tr.rename_map))
                    THEN @ + 1 ELSE @], filenames, Stay>>}
        ELSE IF code = "Enter" THEN {<<primer_begin_edit(tr), filenames, Stay>>}
        ELSE IF code \in {"Esc", "q"} THEN {<<tr, filenames, Quit>>}
        ELSE IF code \in {"Tab", "n"} THEN {<<tr, filenames, NextT("DateSelection")>>}
        ELSE IF code \in {"BackTab", "p"} THEN
            {<<tr, filenames, PreviousT("PrimerRename")>>}
        ELSE {<<tr, filenames, Stay>>}

(***************************************************************************)
(* DateSelectionStage (tui/date_selection.rs)                              *)
(***************************************************************************)
DateSelectionStage_init(now) == [selected_date |-> now]

\* Option<Date>: None when an unwrap() inside panics
next_month(dt) ==
    IF dt.month = 12
    THEN IF IsSome(replace_month(dt, 1))
         THEN replace_year(Unwrap(replace_month(dt, 1)), dt.year + 1)
         ELSE None
    ELSE replace_month(dt, dt.month + 1)

prev_month(dt) ==
    IF dt.month = 1
    THEN IF IsSome(replace_month(dt, 12))
         THEN replace_year(Unwrap(replace_month(dt, 12)), dt.year - 1)
         ELSE None
    ELSE replace_month(dt, dt.month - 1)

\* a variant that stamps the first entry only
stamp_date_first(filenames, dt) ==
    [i \in 1..Len(filenames) |->
        IF i = 1 THEN set_date(filenames[i], dt) ELSE filenames[i]]

\* the loop of the Enter arm: set_date on every entry
stamp_date(filenames, dt) == [i \in 1..Len(filenames) |-> set_date(filenames[i], dt)]

DateNavKeys == {"h", "Left", "j", "Down", "k", "Up", "l", "Right", "n", "Tab", "p", "BackTab"}

\* a variant with the directions of the week keys exchanged
date_after_key_swapped(dt, code) ==
    IF code \in {"h", "Left"} THEN Some(add_days(dt, -1))
    ELSE IF code \in {"j", "Down"} THEN Some(add_days(dt, -7))
    ELSE IF code \in {"k", "Up"} THEN Some(add_days(dt, 7))
    ELSE IF code \in {"l", "Right"} THEN Some(add_days(dt, 1))
    ELSE IF code \in {"n", "Tab"} THEN next_month(dt)
    ELSE prev_month(dt)

\* the date a navigation key selects, None when the handler panics
date_after_key(dt, code) ==
    IF code \in {"h", "Left"} THEN Some(add_days(dt, -1))
    ELSE IF code \in {"j", "Down"} THEN Some(add_days(dt, 7))
    ELSE IF code \in {"k", "Up"} THEN Some(add_days(dt, -7))
    ELSE IF code \in {"l", "Right"} THEN Some(add_days(dt, 1))
    ELSE IF code \in {"n", "Tab"} THEN next_month(dt)
    ELSE prev_month(dt)

\* a variant whose Enter also moves every entry to its standardized name
DateSelection_handle_key_commit(ds, filenames, code) ==
    IF code \in {"Esc", "q"} THEN <<ds, filenames, Quit, FALSE, <<>> >>
    ELSE IF code = "Enter" THEN
        <<ds, stamp_date(filenames, ds.selected_date), Stay, FALSE,
          stamp_date(filenames, ds.selected_date)>>
    ELSE IF code \in DateNavKeys THEN
        Bind(date_after_key(ds.selected_date, code), LAMBDA d :
            IF IsSome(d)
            THEN <<[ds EXCEPT !.selected_date = Unwrap(d)], filenames, Stay, FALSE, <<>> >>
            ELSE <<ds, filenames, Stay, TRUE, <<>> >>)
    ELSE <<ds, filenames, Stay, FALSE, <<>> >>

\* <<stage state, registry, transition, panicked, entries moved on disk>>:
\* no branch of the handler calls move_to_standardized_name
DateSelection_handle_key(ds, filenames, code) ==
    IF code \in {"Esc", "q"} THEN <<ds, filenames, Quit, FALSE, <<>> >>
    ELSE IF code = "Enter" THEN
        <<ds, stamp_date(filenames, ds.selected_date), Stay, FALSE, <<>> >>
    ELSE IF code \in DateNavKeys THEN
        LET d == date_after_key(ds.selected_date, code)
        IN  IF IsSome(d)
            THEN <<[ds EXCEPT !.selected_date = Unwrap(d)], filenames, Stay, FALSE, <<>> >>
            ELSE <<ds, filenames, Stay, TRUE, <<>> >>
    ELSE <<ds, filenames, Stay, FALSE, <<>> >>

(***************************************************************************)
(* ConfirmRenameStage (tui/confirm_rename.rs)                              *)
(***************************************************************************)
ConfirmRenameStage_init(now) == [selected_date |-> now]

\* <<stage state, registry, transition, panicked, entries moved on disk>>
ConfirmRename_handle_key(cr, filenames, code) ==
    IF code \in {"Esc", "q"} THEN <<cr, filenames, Quit, FALSE, <<>> >>
    ELSE IF code = "Enter" THEN
        <<cr, stamp_date(filenames, cr.selected_date), Stay, FALSE, <<>> >>
    ELSE IF code \in DateNavKeys THEN
        LET d == date_after_key(cr.selected_date, code)
            t == IF code \in {"p", "BackTab"} THEN PreviousT("TemplateRename") ELSE Stay
        IN  IF IsSome(d)
            THEN <<[cr EXCEPT !.selected_date = Unwrap(d)], filenames, t, FALSE, <<>> >>
            ELSE <<cr, filenames, Stay, TRUE, <<>> >>
    ELSE <<cr, filenames, Stay, FALSE, <<>> >>

(***************************************************************************)
(* App (tui/mod.rs)                                                        *)
(***************************************************************************)
PathsOf(strs) == { strs[i] : i \in 1..Len(strs) }

\* App::default(), then add_filenames with the command-line arguments
Init ==
    /\ stage = "VendorSelection"
    /\ should_quit = FALSE
    /\ str_fns \in FileLists
    /\ sanger_fns = <<>>
    /\ vendor_selection = VendorSelectionStage_new
    /\ primer_rename = PrimerRenameStage_init
    /\ template_rename = TemplateRenameStage_init
    /\ today \in Todays
    /\ date_selection = DateSelectionStage_init(today)
    /\ confirm_rename = ConfirmRenameStage_init(today)
    /\ transition = Stay
    /\ panicked = FALSE
    /\ fs = PathsOf(str_fns)
    /\ moves = <<>>
    /\ date_moves = 0
    /\ last_call = None

\* App::handle_stage_transition, applied to the state the stage handler left
handle_stage_transition(t, vs1, pr1, tr1, ds1, fns1, dm1) ==
    /\ stage' = IF t.kind \in {"Next", "Previous"} THEN t.stage ELSE stage
    /\ should_quit' = IF t.kind = "Quit" THEN TRUE ELSE should_quit
    /\ vendor_selection' =
          IF t = PreviousT("VendorSelection") THEN VendorSelectionStage_new ELSE vs1
    /\ IF t = NextT("PrimerRename")
       THEN \E r \in {filenames_string_to_sanger(str_fns, vs1.selected_vendor, fns1)} :
                IF IsSome(r)
                THEN /\ sanger_fns' = Unwrap(r)
                     /\ primer_rename' \in PrimerRenameStage_from_sanger_fns(Unwrap(r))
                     /\ panicked' = FALSE
                ELSE /\ sanger_fns' = fns1
                     /\ primer_rename' = pr1
                     /\ panicked' = TRUE
       ELSE /\ sanger_fns' = fns1
            /\ panicked' = FALSE
            /\ primer_rename' \in IF t = PreviousT("PrimerRename")
                                  THEN PrimerRenameStage_from_sanger_fns(fns1)
                                  ELSE {pr1}
    /\ IF t.kind \in {"Next", "Previous"} /\ t.stage = "TemplateRename"
       THEN template_rename' \in TemplateRenameStage_from_sanger_fns(fns1)
       ELSE template_rename' = tr1
    /\ IF t.kind \in {"Next", "Previous"} /\ t.stage = "DateSelection"
       THEN date_selection' = DateSelectionStage_init(today) /\ date_moves' = 0
       ELSE date_selection' = ds1 /\ date_moves' = dm1

\* what the operator can press within the bounds of the model
KeyAllowed(code) ==
    /\ (stage = "PrimerRename" /\ primer_rename.editing /\ IsChar(code))
          => code \in EditChars /\ Len(primer_rename.current_input) < MaxInput
    /\ (stage = "TemplateRename" /\ template_rename.editing /\ IsChar(code))
          => code \in EditChars /\ Len(template_rename.current_input) < MaxTemplateInput
    /\ (stage = "DateSelection" /\ code \in DateNavKeys) => date_moves < MaxDateMoves

\* The stage handler App::handle_key dispatches to, as the set of
\* <<vendor stage, primer stage, template stage, date stage, registry,
\*   transition, panicked, entries moved on disk>> it can leave
Dispatch(code) ==
    IF stage = "VendorSelection" THEN
        { <<r[1], primer_rename, template_rename, date_selection, sanger_fns,
            r[2], FALSE, <<>> >> :
          r \in {VendorSelection_handle_key(vendor_selection, code)} }
    ELSE IF stage = "PrimerRename" THEN
        { <<vendor_selection, r[1], template_rename, date_selection, r[2],
            r[3], FALSE, <<>> >> :
          r \in PrimerRename_handle_key(primer_rename, sanger_fns, code) }
    ELSE IF stage = "TemplateRename" THEN
        { <<vendor_selection, primer_rename, r[1], date_selection, r[2],
            r[3], FALSE, <<>> >> :
          r \in TemplateRename_handle_key(template_rename, sanger_fns, code) }
    ELSE IF stage = "DateSelection" THEN
        { <<vendor_selection, primer_rename, template_rename, r[1], r[2],
            r[3], r[4], r[5]>> :
          r \in {DateSelection_handle_key(date_selection, sanger_fns, code)} }
    ELSE {}

\* one iteration of App::run: App::handle_key on the event read.  The transition
\* a handler returns is consumed by handle_stage_transition in the same call.
HandleKey(kind, code) ==
    /\ ~should_quit
    /\ ~panicked
    /\ KeyAllowed(code)
    /\ UNCHANGED <<str_fns, confirm_rename, today, transition, last_call>>
    /\ IF kind # "Press"
       THEN UNCHANGED <<stage, should_quit, sanger_fns, vendor_selection, primer_rename,
                        template_rename, date_selection, panicked, date_moves, fs, moves>>
       ELSE \E r \in Dispatch(code) :
            /\ \E done \in {perform_moves(r[8], today, fs, moves)} :
                   fs' = done[1] /\ moves' = done[2]
            /\ IF r[7]
               THEN /\ panicked' = TRUE
                    /\ UNCHANGED <<stage, should_quit, sanger_fns, vendor_selection,
                                   primer_rename, template_rename, date_selection,
                                   date_moves>>
               ELSE handle_stage_transition(r[6], r[1], r[2], r[3], r[4], r[5],
                        IF stage = "DateSelection" /\ code \in DateNavKeys
                        THEN date_moves + 1 ELSE date_moves)

Next == \E ev \in KeyEvents : HandleKey(ev[1], ev[2])

Spec == Init /\ [][Next]_vars

(***************************************************************************)
(* ConfirmRenameStage driven directly, as its own handle_key is written:   *)
(* the stage is built over a registry with from_sanger_fns and receives    *)
(* the key events.  App has no arm that dispatches to it.                  *)
(***************************************************************************)
InitConfirm ==
    /\ stage = "ConfirmRename"
    /\ should_quit = FALSE
    /\ str_fns \in FileLists
    /\ \E i \in 0..(Len(Vendors) - 1) :
          /\ vendor_selection = [highlighted |-> i, selected_vendor |-> from_index(i)]
          /\ sanger_fns = Unwrap(filenames_string_to_sanger(str_fns, from_index(i), <<>>))
    /\ primer_rename = PrimerRenameStage_init
    /\ template_rename = TemplateRenameStage_init
    /\ today \in Todays
    /\ date_selection = DateSelectionStage_init(today)
    /\ confirm_rename = ConfirmRenameStage_init(today)
    /\ transition = Stay
    /\ panicked = FALSE
    /\ fs \in { PathsOf(str_fns), PathsOf(str_fns) \ {str_fns[1]} }
    /\ moves = <<>>
    /\ date_moves = 0
    /\ last_call = None

\* ConfirmRenameStage::handle_key on one event, while the stage is the current one
ConfirmKey(kind, code) ==
    /\ ~panicked
    /\ transition = Stay
    /\ code \in DateNavKeys => date_moves < MaxDateMoves
    /\ UNCHANGED <<stage, should_quit, str_fns, vendor_selection, primer_rename,
                   template_rename, date_selection, today, last_call>>
    /\ IF kind # "Press"
       THEN UNCHANGED <<sanger_fns, confirm_rename, transition, panicked, fs, moves,
                        date_moves>>
       ELSE \E r \in {ConfirmRename_handle_key(confirm_rename, sanger_fns, code)} :
            /\ confirm_rename' = r[1]
            /\ sanger_fns' = r[2]
            /\ transition' = r[3]
            /\ panicked' = r[4]
            /\ \E done \in {perform_moves(r[5], today, fs, moves)} :
                   fs' = done[1] /\ moves' = done[2]
            /\ date_moves' = IF code \in DateNavKeys THEN date_moves + 1 ELSE date_moves

NextConfirm == \E ev \in KeyEvents : ConfirmKey(ev[1], ev[2])

SpecConfirm == InitConfirm /\ [][NextConfirm]_vars

(***************************************************************************)
(* SangerFilename driven through its public methods by a client: one entry *)
(* over one file on disk.                                                  *)
(***************************************************************************)
InitFile ==
    /\ stage = "VendorSelection"
    /\ should_quit = FALSE
    /\ \E f \in FileInputs, v \in VendorSet :
          /\ str_fns = <<f>>
          /\ sanger_fns = <<new(f, v)>>
    /\ vendor_selection = VendorSelectionStage_new
    /\ primer_rename = PrimerRenameStage_init
    /\ template_rename = TemplateRenameStage_init
    /\ today \in Todays
    /\ date_selection = DateSelectionStage_init(today)
    /\ confirm_rename = ConfirmRenameStage_init(today)
    /\ transition = Stay
    /\ panicked = FALSE
    /\ fs = PathsOf(str_fns)
    /\ moves = <<>>
    /\ date_moves = 0
    /\ last_call = None

FileUnchanged ==
    UNCHANGED <<stage, should_quit, str_fns, vendor_selection, primer_rename,
                template_rename, date_selection, confirm_rename, transition, panicked,
                today, date_moves>>

FileSetPrimer(label) ==
    /\ sanger_fns' = [sanger_fns EXCEPT ![1] = set_primer_name(@, label)]
    /\ UNCHANGED <<fs, moves, last_call>>
    /\ FileUnchanged

FileSetTemplate(label) ==
    /\ sanger_fns' = [sanger_fns EXCEPT ![1] = set_template_name(@, label)]
    /\ UNCHANGED <<fs, moves, last_call>>
    /\ FileUnchanged

FileSetDate(dt) ==
    /\ sanger_fns' = [sanger_fns EXCEPT ![1] = set_date(@, dt)]
    /\ UNCHANGED <<fs, moves, last_call>>
    /\ FileUnchanged

FileSetVendor(v) ==
    /\ sanger_fns' = [sanger_fns EXCEPT ![1] = set_vendor(@, v)]
    /\ UNCHANGED <<fs, moves, last_call>>
    /\ FileUnchanged

FileMove ==
    /\ Len(moves) < MaxMoves
    /\ \E done \in {perform_moves(<<sanger_fns[1]>>, today, fs, moves)} :
           fs' = done[1] /\ moves' = done[2]
    /\ UNCHANGED <<sanger_fns, last_call>>
    /\ FileUnchanged

NextFile ==
    \/ \E label \in LabelInputs : FileSetPrimer(label)
    \/ \E label \in LabelInputs : FileSetTemplate(label)
    \/ \E dt \in DateInputs : FileSetDate(dt)
    \/ \E v \in VendorSet : FileSetVendor(v)
    \/ FileMove

SpecFile == InitFile /\ [][NextFile]_vars

(***************************************************************************)
(* The per-vendor decomposition over every short file stem: an entry is    *)
(* constructed with new under each vendor.                                 *)
(***************************************************************************)
RECURSIVE StringsUpTo(_)
StringsUpTo(n) ==
    IF n = 0 THEN {""}
    ELSE StringsUpTo(n - 1) \cup { s \o c : s \in StringsUpTo(n - 1), c \in StemChars }

Stems == StringsUpTo(MaxStemLen)

InitDecompose ==
    /\ stage = "VendorSelection"
    /\ should_quit = FALSE
    /\ \E s \in Stems : str_fns = <<"d/" \o s \o ".ab1">>
    /\ sanger_fns = <<>>
    /\ vendor_selection = VendorSelectionStage_new
    /\ primer_rename = PrimerRenameStage_init
    /\ template_rename = TemplateRenameStage_init
    /\ today \in Todays
    /\ date_selection = DateSelectionStage_init(today)
    /\ confirm_rename = ConfirmRenameStage_init(today)
    /\ transition = Stay
    /\ panicked = FALSE
    /\ fs = PathsOf(str_fns)
    /\ moves = <<>>
    /\ date_moves = 0
    /\ last_call = None

Decompose(v) ==
    /\ sanger_fns = <<>>
    /\ sanger_fns' = <<new(str_fns[1], v)>>
    /\ UNCHANGED <<fs, moves, last_call>>
    /\ FileUnchanged

NextDecompose == \E v \in VendorSet : Decompose(v)

SpecDecompose == InitDecompose /\ [][NextDecompose]_vars

(***************************************************************************)
(* The constructors on raw filenames: a client holds one raw filename and  *)
(* builds one object from it, a SangerFilename under a vendor or one of    *)
(* the per-vendor trait implementations, and reads its three fields.       *)
(***************************************************************************)
RECURSIVE RawStrings(_)
RawStrings(n) ==
    IF n = 0 THEN {""}
    ELSE RawStrings(n - 1) \cup { s \o c : s \in RawStrings(n - 1), c \in RawChars }

RawNames ==
    { d \o s \o e : d \in {"", "d/", "d.x/"}, s \in RawStrings(MaxRawLen),
                    e \in {"", ".ab1"} }

InitRaw ==
    /\ stage = "VendorSelection"
    /\ should_quit = FALSE
    /\ \E f \in RawNames : str_fns = <<f>>
    /\ sanger_fns = <<>>
    /\ vendor_selection = VendorSelectionStage_new
    /\ primer_rename = PrimerRenameStage_init
    /\ template_rename = TemplateRenameStage_init
    /\ today \in Todays
    /\ date_selection = DateSelectionStage_init(today)
    /\ confirm_rename = ConfirmRenameStage_init(today)
    /\ transition = Stay
    /\ panicked = FALSE
    /\ fs = PathsOf(str_fns)
    /\ moves = <<>>
    /\ date_moves = 0
    /\ last_call = None

RawUnchanged ==
    UNCHANGED <<stage, should_quit, str_fns, vendor_selection, primer_rename,
                template_rename, date_selection, confirm_rename, transition,
                today, fs, moves, date_moves>>

\* the fields a client reads from an object it has built
FieldsRead(template_name, primer_name, vendor_id) ==
    [template_name |-> template_name, primer_name |-> primer_name, vendor_id |-> vendor_id]

\* SangerFilename::new(raw, v), then get_template_name, get_primer_name, get_vendor_id
Construct(v) ==
    /\ sanger_fns = <<>> /\ last_call = None /\ ~panicked
    /\ \E sf \in {new(str_fns[1], v)} :
          IF extract_panics(sf)
          THEN panicked' = TRUE /\ UNCHANGED <<sanger_fns, last_call>>
          ELSE /\ panicked' = FALSE
               /\ sanger_fns' = <<sf>>
               /\ last_call' = Some([call |-> "SangerFilename::new", arg |-> str_fns[1],
                                     ret |-> FieldsRead(get_template_name(sf),
                                                        get_primer_name(sf),
                                                        get_vendor_id(sf))])
    /\ RawUnchanged

\* RuibioSangerFilename::from(raw), then the three getters
RuibioFrom ==
    /\ sanger_fns = <<>> /\ last_call = None /\ ~panicked
    /\ \E r \in {RuibioSangerFilename_from(str_fns[1])} :
          last_call' = Some([call |-> "RuibioSangerFilename::from", arg |-> r.filename,
                             ret |-> FieldsRead(
                                 RuibioSangerFilename_get_template_name(r.filename),
                                 RuibioSangerFilename_get_primer_name(r.filename),
                                 RuibioSangerFilename_get_vendor_id(r.filename))])
    /\ UNCHANGED <<sanger_fns, panicked>>
    /\ RawUnchanged

\* SangonSangerFilename::from(raw), then the three getters
SangonFrom ==
    /\ sanger_fns = <<>> /\ last_call = None /\ ~panicked
    /\ \E r \in {SangonSangerFilename_from(str_fns[1])} :
          last_call' = Some([call |-> "SangonSangerFilename::from", arg |-> r.filename,
                             ret |-> FieldsRead(
                                 SangonSangerFilename_get_template_name(r.filename),
                                 SangonSangerFilename_get_primer_name(r.filename),
                                 SangonSangerFilename_get_vendor_id(r.filename))])
    /\ UNCHANGED <<sanger_fns, panicked>>
    /\ RawUnchanged

NextRaw ==
    \/ \E v \in VendorSet : Construct(v)
    \/ RuibioFrom
    \/ SangonFrom

SpecRaw == InitRaw /\ [][NextRaw]_vars

(***************************************************************************)
(* App driven through its public methods by a client, as the unit tests of *)
(* tui/mod.rs drive it: add_filenames, set_selected_vendor,                *)
(* set_vendor_highlighted and filenames_string_to_sanger on App::new().    *)
(***************************************************************************)
InitApp ==
    /\ stage = "VendorSelection"
    /\ should_quit = FALSE
    /\ str_fns = <<>>
    /\ sanger_fns = <<>>
    /\ vendor_selection = VendorSelectionStage_new
    /\ primer_rename = PrimerRenameStage_init
    /\ template_rename = TemplateRenameStage_init
    /\ today \in Todays
    /\ date_selection = DateSelectionStage_init(today)
    /\ confirm_rename = ConfirmRenameStage_init(today)
    /\ transition = Stay
    /\ panicked = FALSE
    /\ fs = {}
    /\ moves = <<>>
    /\ date_moves = 0
    /\ last_call = None

AppUnchanged ==
    UNCHANGED <<stage, should_quit, primer_rename, template_rename, date_selection,
                confirm_rename, transition, panicked, today, fs, moves, date_moves>>

\* App::add_filenames
AddFilenames(filenames) ==
    /\ Len(str_fns) + Len(filenames) <= MaxPending
    /\ str_fns' = str_fns \o filenames
    /\ UNCHANGED <<sanger_fns, vendor_selection, last_call>>
    /\ AppUnchanged

\* App::set_selected_vendor
SetSelectedVendor(vendor) ==
    /\ vendor_selection' = set_selected_vendor(vendor_selection, vendor)
    /\ UNCHANGED <<str_fns, sanger_fns, last_call>>
    /\ AppUnchanged

\* App::set_vendor_highlighted
SetVendorHighlighted(index) ==
    /\ vendor_selection' = set_highlighted(vendor_selection, index)
    /\ UNCHANGED <<str_fns, sanger_fns, last_call>>
    /\ AppUnchanged

\* App::filenames_string_to_sanger, its Result handed back to the client
StringToSanger ==
    /\ \E r \in {filenames_string_to_sanger(str_fns, vendor_selection.selected_vendor,
                                              sanger_fns)} :
          /\ sanger_fns' = IF IsSome(r) THEN Unwrap(r) ELSE sanger_fns
          /\ last_call' = Some([call |-> "App::filenames_string_to_sanger",
                                arg |-> vendor_selection.selected_vendor,
                                ret |-> IF IsSome(r) THEN Ok(<<>>)
                                        ELSE Err("No vendor selected")])
    /\ UNCHANGED <<str_fns, vendor_selection>>
    /\ AppUnchanged

NextApp ==
    \/ \E filenames \in FileLists : AddFilenames(filenames)
    \/ \E vendor \in {None} \cup { Some(v) : v \in VendorSet } : SetSelectedVendor(vendor)
    \/ \E index \in 0..Len(Vendors) : SetVendorHighlighted(index)
    \/ StringToSanger

SpecApp == InitApp /\ [][NextApp]_vars

(***************************************************************************)
(* Vendor::from_str called by a client on a vendor string.                 *)
(***************************************************************************)
InitVendor ==
    /\ stage = "VendorSelection"
    /\ should_quit = FALSE
    /\ str_fns = <<>>
    /\ sanger_fns = <<>>
    /\ vendor_selection = VendorSelectionStage_new
    /\ primer_rename = PrimerRenameStage_init
    /\ template_rename = TemplateRenameStage_init
    /\ today \in Todays
    /\ date_selection = DateSelectionStage_init(today)
    /\ confirm_rename = ConfirmRenameStage_init(today)
    /\ transition = Stay
    /\ panicked = FALSE
    /\ fs = PathsOf(str_fns)
    /\ moves = <<>>
    /\ date_moves = 0
    /\ last_call = None

FromStr(s) ==
    /\ last_call' = Some([call |-> "Vendor::from_str", arg |-> s, ret |-> from_str(s)])
    /\ UNCHANGED <<sanger_fns, fs, moves>>
    /\ FileUnchanged

NextVendor == \E s \in VendorStrings : FromStr(s)

SpecVendor == InitVendor /\ [][NextVendor]_vars

(***************************************************************************)
(* DateSelectionStage driven directly through its own handle_key, built    *)
(* with from_sanger_fns over a decomposed registry on days at the ends of  *)
(* months and years.                                                       *)
(***************************************************************************)
\* date-navigation key presses per session of the stage driven directly
MaxDateSteps == 2

InitDate ==
    /\ stage = "DateSelection"
    /\ should_quit = FALSE
    /\ str_fns = <<"d/T-B_1.ab1", "d/T-BB_2.ab1">>
    /\ vendor_selection = [highlighted |-> 2, selected_vendor |-> from_index(2)]
    /\ sanger_fns = Unwrap(filenames_string_to_sanger(str_fns, from_index(2), <<>>))
    /\ primer_rename = PrimerRenameStage_init
    /\ template_rename = TemplateRenameStage_init
    /\ today \in { Date(2024, 12, 31), Date(2025, 1, 1), Date(2024, 2, 29),
                   Date(2025, 3, 30), Date(2025, 6, 15) }
    /\ date_selection = DateSelectionStage_init(today)
    /\ confirm_rename = ConfirmRenameStage_init(today)
    /\ transition = Stay
    /\ panicked = FALSE
    /\ fs = PathsOf(str_fns)
    /\ moves = <<>>
    /\ date_moves = 0
    /\ last_call = None

\* DateSelectionStage::handle_key on one event
DateKey(kind, code) ==
    /\ ~panicked
    /\ transition = Stay
    /\ code \in DateNavKeys => date_moves < MaxDateSteps
    /\ UNCHANGED <<stage, should_quit, str_fns, vendor_selection, primer_rename,
                   template_rename, confirm_rename, today, last_call>>
    /\ IF kind # "Press"
       THEN UNCHANGED <<sanger_fns, date_selection, transition, panicked, fs, moves,
                        date_moves>>
       ELSE \E r \in {DateSelection_handle_key(date_selection, sanger_fns, code)} :
            /\ date_selection' = r[1]
            /\ sanger_fns' = r[2]
            /\ transition' = r[3]
            /\ panicked' = r[4]
            /\ \E done \in {perform_moves(r[5], today, fs, moves)} :
                   fs' = done[1] /\ moves' = done[2]
            /\ date_moves' = IF code \in DateNavKeys THEN date_moves + 1 ELSE date_moves

SpecDate == InitDate /\ [][\E ev \in KeyEvents : DateKey(ev[1], ev[2])]_vars

(***************************************************************************)
(* The wizard with App::handle_stage_transition also called directly, as   *)
(* test_primer_rename_fill calls it, between key events: every stage can   *)
(* then be left and entered again, whatever its handler returns.           *)
(***************************************************************************)
\* the transitions handle_stage_transition has an arm for
Transitions ==
    { NextT("PrimerRename"), NextT("TemplateRename"), NextT("DateSelection"),
      PreviousT("VendorSelection"), PreviousT("PrimerRename"),
      PreviousT("TemplateRename") }

\* the keys pressed between the calls: browsing, entering and leaving edit
\* mode, stamping and stage changes, no text typed
TransitionKeys == {"Enter", "Esc", "Tab", "BackTab", "Down", "Left"}

\* a direct call of App::handle_stage_transition
StageTransition(t) ==
    /\ ~should_quit
    /\ ~panicked
    /\ handle_stage_transition(t, vendor_selection, primer_rename, template_rename,
                               date_selection, sanger_fns, date_moves)
    /\ UNCHANGED <<str_fns, confirm_rename, today, transition, last_call, fs, moves>>

NextTransition ==
    \/ \E code \in TransitionKeys : HandleKey("Press", code)
    \/ \E t \in Transitions : StageTransition(t)

SpecTransition == Init /\ [][NextTransition]_vars

(***************************************************************************)
(* Properties                                                              *)
(***************************************************************************)

\* C1: committing a non-empty buffer B in PrimerRename edit mode on the
\* highlighted key X sets the primer label of every entry labelled X to B and
\* changes no entry whose label is not X.
C1_CommitRenamesOnlyHighlighted ==
    [][ ( /\ stage = "PrimerRename"
          /\ primer_rename.editing
          /\ primer_rename.current_input # ""
          /\ primer_rename.highlighted < Len(primer_rename.order)
          /\ HandleKey("Press", "Enter") )
        => \A i \in 1..Len(sanger_fns) :
              IF get_primer_name(sanger_fns[i])
                    = primer_rename.order[primer_rename.highlighted + 1]
              THEN get_primer_name(sanger_fns'[i]) = primer_rename.current_input
              ELSE sanger_fns'[i] = sanger_fns[i] ]_vars

\* C2: in every stage other than VendorSelection each registry entry carries
\* the vendor that is currently selected.
C2_VendorMatchesSelection ==
    stage # "VendorSelection" =>
        /\ IsSome(vendor_selection.selected_vendor)
        /\ \A i \in 1..Len(sanger_fns) :
              sanger_fns[i].vendor = Unwrap(vendor_selection.selected_vendor)

\* C3: no two registry entries share a full_path, and add_filename of an entry
\* whose path is already registered leaves the registry as it is.
C3_UniquePaths ==
    /\ \A i, j \in 1..Len(sanger_fns) :
          i # j => get_full_path(sanger_fns[i]) # get_full_path(sanger_fns[j])
    /\ \A i \in 1..Len(sanger_fns), v \in VendorSet :
          add_filename(sanger_fns, new(get_full_path(sanger_fns[i]), v)) = sanger_fns

\* C3 witness: a list that names one path twice was committed, the operator
\* retreated and committed another vendor, and the registry holds one entry.
C3_Recommitted ==
    /\ stage = "PrimerRename"
    /\ Len(str_fns) = 2
    /\ Len(sanger_fns) = 1
    /\ vendor_selection.selected_vendor # Some(sanger_fns[1].vendor)

\* C4: in DateSelection, Tab or 'n' advances to ConfirmRename and BackTab or
\* 'p' retreats to TemplateRename.
C4_DateStageTransitions ==
    [][ /\ ( stage = "DateSelection"
              /\ \E code \in {"Tab", "n"} : HandleKey("Press", code) )
            => stage' = "ConfirmRename"
        /\ ( stage = "DateSelection"
              /\ \E code \in {"BackTab", "p"} : HandleKey("Press", code) )
            => stage' = "TemplateRename" ]_vars

\* C5: Enter in ConfirmRename attempts the move of every registry entry.
C5_EnterCommitsRenames ==
    [][ ConfirmKey("Press", "Enter")
        => Len(moves') = Len(moves) + Len(sanger_fns) ]_vars

\* C6: no key handled in VendorSelection, PrimerRename, TemplateRename or
\* DateSelection, and no Quit, moves a file: the disk stays as it was found.
C6_NoMoveBeforeCommit == moves = <<>> /\ fs = PathsOf(str_fns)

\* C6 witness: the operator went through all four stages, renamed a primer and
\* a template, stamped the date and quit.
C6_WalkedAndQuit ==
    /\ should_quit
    /\ stage = "DateSelection"
    /\ \E i \in 1..Len(sanger_fns) :
          /\ IsSome(sanger_fns[i].date)
          /\ sanger_fns[i].filename = "d/T-B_1.ab1"
          /\ sanger_fns[i].primer_name = "BB"
          /\ sanger_fns[i].template_name = "B"

\* C7: when Enter in ConfirmRename commits, a move is attempted for every
\* entry, and it is reported failed exactly for the entries whose file is
\* missing.
C7_FailureIsPerEntry ==
    [][ ConfirmKey("Press", "Enter")
        => \A i \in 1..Len(sanger_fns) :
              \E k \in (Len(moves) + 1)..Len(moves') :
                  /\ moves'[k].from = get_full_path(sanger_fns[i])
                  /\ moves'[k].ok = (get_full_path(sanger_fns[i]) \in fs) ]_vars

\* C8: the destination move_to_standardized_name hands to fs::rename lies in
\* the directory of full_path and its file name is the standardized name, a
\* dot, and the original extension.
C8_MoveStaysInDirectory ==
    [][ FileMove
        => /\ parent(moves'[Len(moves')].to) = parent(moves'[Len(moves')].from)
           /\ file_name(moves'[Len(moves')].to)
                 = Some(get_standardized_name(sanger_fns[1], today) \o "."
                        \o get_extension_name(sanger_fns[1])) ]_vars

\* C9: for every date the standardized name starts with yy mm dd, each two
\* decimal digits zero-padded, yy being the year modulo 100, then a dot.
C9_TwoDigitDateFields ==
    \A i \in 1..Len(sanger_fns) :
        IsSome(sanger_fns[i].date) =>
            LET dt == Unwrap(sanger_fns[i].date)
                name == get_standardized_name(sanger_fns[i], today)
                TwoDigits(n) == Digit(n \div 10) \o Digit(n % 10)
            IN  /\ Len(name) >= 7
                /\ Slice(name, 0, 6)
                      = TwoDigits(dt.year % 100) \o TwoDigits(dt.month) \o TwoDigits(dt.day)
                /\ CharAt(name, 6) = "."

\* C10: under Genewiz, with u the last '_' of the stem and d the last '-'
\* before u: template = stem[0..d), primer = stem(d..u), vendor id = the rest
\* after u; without '_' all three are empty; with '_' but no '-' before it the
\* template and primer are empty and the vendor id is still what follows u.
C10_GenewizDecomposition ==
    \A i \in 1..Len(sanger_fns) :
        sanger_fns[i].vendor = "Genewiz" =>
            LET sf == sanger_fns[i]
                stem == get_file_stem(sf)
                IsLast(c, k, end) ==
                    /\ CharAt(stem, k) = c
                    /\ \A m \in (k + 1)..(end - 1) : CharAt(stem, m) # c
            IN  IF \A k \in 0..(Len(stem) - 1) : CharAt(stem, k) # "_"
                THEN /\ get_template_name(sf) = ""
                     /\ get_primer_name(sf) = ""
                     /\ get_vendor_id(sf) = ""
                ELSE \E u \in 0..(Len(stem) - 1) :
                     /\ IsLast("_", u, Len(stem))
                     /\ get_vendor_id(sf) = SubSeq(stem, u + 2, Len(stem))
                     /\ IF \A k \in 0..(u - 1) : CharAt(stem, k) # "-"
                        THEN get_template_name(sf) = "" /\ get_primer_name(sf) = ""
                        ELSE \E d \in 0..(u - 1) :
                             /\ IsLast("-", d, u)
                             /\ get_template_name(sf) = SubSeq(stem, 1, d)
                             /\ get_primer_name(sf) = SubSeq(stem, d + 2, u)

\* C10 witness: a Genewiz entry whose stem has two underscores and a dash
\* before the last one.
C10_TwoUnderscores ==
    /\ Len(sanger_fns) = 1
    /\ sanger_fns[1].vendor = "Genewiz"
    /\ get_file_stem(sanger_fns[1]) = "-a__"
    /\ get_primer_name(sanger_fns[1]) = "a_"

\* C11: under Ruibio, in the SangerFilename struct and in RuibioSangerFilename
\* alike, the template is the stem up to its first '.', the primer the second
\* '.'-separated token of the stem, and the vendor id the last two tokens
\* joined by '.' (what follows the last-but-one '.'); a field whose tokens
\* are missing is empty.  The stem is the file name without directory and
\* final extension, whatever the directory is called.
C11_RuibioDecomposition ==
    ( /\ IsSome(last_call)
      /\ \/ Unwrap(last_call).call = "RuibioSangerFilename::from"
         \/ /\ Unwrap(last_call).call = "SangerFilename::new"
            /\ sanger_fns[1].vendor = "Ruibio" )
    => LET c == Unwrap(last_call)
           stem == unwrap_or_default(file_stem(c.arg))
           Dots == { k \in 1..Len(stem) : SubSeq(stem, k, k) = "." }
           Min(S) == CHOOSE x \in S : \A y \in S : x <= y
           Max(S) == CHOOSE x \in S : \A y \in S : x >= y
       IN  /\ c.ret.template_name
                 = IF Dots = {} THEN "" ELSE SubSeq(stem, 1, Min(Dots) - 1)
           /\ c.ret.primer_name
                 = IF Dots = {} THEN ""
                   ELSE IF Cardinality(Dots) = 1 THEN SubSeq(stem, Min(Dots) + 1, Len(stem))
                   ELSE SubSeq(stem, Min(Dots) + 1, Min(Dots \ {Min(Dots)}) - 1)
           /\ c.ret.vendor_id
                 = IF Cardinality(Dots) < 2 THEN ""
                   ELSE SubSeq(stem, Max(Dots \ {Max(Dots)}) + 1, Len(stem))

\* C12: under Sangon, in the SangerFilename struct and in SangonSangerFilename
\* alike, the template is the text between the first '(' and the first ')' of
\* the raw filename, the primer the text between the first '[' and the first
\* ']' of the stem, each empty unless the closing delimiter comes after the
\* opening one, and the vendor id is the second '_'-separated token of the
\* stem, empty without '_'.
C12_SangonDecomposition ==
    ( /\ IsSome(last_call)
      /\ \/ Unwrap(last_call).call = "SangonSangerFilename::from"
         \/ /\ Unwrap(last_call).call = "SangerFilename::new"
            /\ sanger_fns[1].vendor = "Sangon" )
    => LET c == Unwrap(last_call)
           raw == c.arg
           stem == unwrap_or_default(file_stem(raw))
           Pos(str, ch) == { k \in 1..Len(str) : SubSeq(str, k, k) = ch }
           Min(S) == CHOOSE x \in S : \A y \in S : x <= y
           Between(str, open, close) ==
               IF /\ Pos(str, open) # {}
                  /\ Pos(str, close) # {}
                  /\ Min(Pos(str, close)) > Min(Pos(str, open))
               THEN SubSeq(str, Min(Pos(str, open)) + 1, Min(Pos(str, close)) - 1)
               ELSE ""
           Us == Pos(stem, "_")
       IN  /\ c.ret.template_name = Between(raw, "(", ")")
           /\ c.ret.primer_name = Between(stem, "[", "]")
           /\ c.ret.vendor_id
                 = IF Us = {} THEN ""
                   ELSE IF Cardinality(Us) = 1 THEN SubSeq(stem, Min(Us) + 1, Len(stem))
                   ELSE SubSeq(stem, Min(Us) + 1, Min(Us \ {Min(Us)}) - 1)

\* C12 witness: a Sangon entry built from a path in a directory whose name
\* has a '.', with a template between parentheses and an empty second token.
C12_SangonParenthesized ==
    /\ Len(sanger_fns) = 1
    /\ sanger_fns[1].vendor = "Sangon"
    /\ sanger_fns[1].filename = "d.x/(a)_.ab1"
    /\ IsSome(last_call)
    /\ Unwrap(last_call).ret = [template_name |-> "a", primer_name |-> "", vendor_id |-> ""]

\* C13: for every raw filename and every vendor, SangerFilename::new and the
\* three getters return without a panic, and a field whose delimiters are
\* not found (or whose closing delimiter precedes the opening one) is empty.
C13_ConstructNeverFails ==
    /\ ~panicked
    /\ (IsSome(last_call) /\ Unwrap(last_call).call = "SangerFilename::new") =>
          LET c == Unwrap(last_call)
              raw == c.arg
              stem == unwrap_or_default(file_stem(raw))
              v == sanger_fns[1].vendor
              Has(str, ch) == \E k \in 1..Len(str) : SubSeq(str, k, k) = ch
              \* no ch2 after the first ch1
              NoSpan(str, ch1, ch2) ==
                  \A i, j \in 1..Len(str) :
                      (SubSeq(str, i, i) = ch1 /\ SubSeq(str, j, j) = ch2 /\ i < j)
                          => \E k \in 1..(j - 1) : SubSeq(str, k, k) = ch2
          IN  /\ (v = "Sangon" /\ NoSpan(raw, "(", ")")) => c.ret.template_name = ""
              /\ (v = "Sangon" /\ NoSpan(stem, "[", "]")) => c.ret.primer_name = ""
              /\ (v = "Sangon" /\ ~Has(stem, "_")) => c.ret.vendor_id = ""
              /\ (v = "Ruibio" /\ ~Has(stem, ".")) =>
                     c.ret = [template_name |-> "", primer_name |-> "", vendor_id |-> ""]
              /\ (v = "Genewiz" /\ ~Has(stem, "_")) =>
                     c.ret = [template_name |-> "", primer_name |-> "", vendor_id |-> ""]
              /\ (v = "Genewiz" /\ ~Has(stem, "-")) =>
                     c.ret.template_name = "" /\ c.ret.primer_name = ""

\* C13 witness: a Sangon entry was built from ")(", whose closing parenthesis
\* precedes the opening one, and its template was read as empty.
C13_ClosingFirst ==
    /\ ~panicked
    /\ Len(sanger_fns) = 1
    /\ sanger_fns[1].vendor = "Sangon"
    /\ IsSome(last_call)
    /\ Unwrap(last_call).arg = ")("
    /\ Unwrap(last_call).ret.template_name = ""

\* C14: set_vendor(v) leaves the entry with the template and primer labels of
\* a fresh SangerFilename::new(same filename, v), whatever labels it held
\* before, and with its full_path and date unchanged.
C14_SetVendorReextracts ==
    [][ \A v \in VendorSet :
          FileSetVendor(v) =>
              LET fresh == new(get_full_path(sanger_fns[1]), v)
              IN  /\ sanger_fns'[1].vendor = v
                  /\ get_template_name(sanger_fns'[1]) = get_template_name(fresh)
                  /\ get_primer_name(sanger_fns'[1]) = get_primer_name(fresh)
                  /\ get_full_path(sanger_fns'[1]) = get_full_path(sanger_fns[1])
                  /\ sanger_fns'[1].date = sanger_fns[1].date ]_vars

\* C14 witness: the entry was moved while it held the primer override "M/p"
\* (the move log shows it), was dated, and was then switched to Sangon, a
\* pattern its filename does not match: both labels are empty.
C14_SwitchedAfterOverride ==
    /\ sanger_fns[1].filename = "d/T-B_1.ab1"
    /\ sanger_fns[1].vendor = "Sangon"
    /\ sanger_fns[1].primer_name = ""
    /\ sanger_fns[1].template_name = ""
    /\ IsSome(sanger_fns[1].date)
    /\ Len(moves) = 1
    /\ SubSeq(moves[1].to, Len(moves[1].to) - 6, Len(moves[1].to)) = "M/p.ab1"

\* C15: Vendor::from_str returns the vendor whose lower-case name the string
\* spells in any mix of upper and lower case, and rejects every other string
\* (the empty one and ones with surrounding spaces included) with the error
\* "Unknown vendor: <the string>".
C15_FromStrAcceptsExactly ==
    (IsSome(last_call) /\ Unwrap(last_call).call = "Vendor::from_str") =>
        LET c == Unwrap(last_call)
            Small == "abcdefghijklmnopqrstuvwxyz"
            Capital == "ABCDEFGHIJKLMNOPQRSTUVWXYZ"
            Spells(str, name) ==
                /\ Len(str) = Len(name)
                /\ \A k \in 1..Len(name) :
                      \E j \in 1..26 :
                          /\ SubSeq(name, k, k) = SubSeq(Small, j, j)
                          /\ SubSeq(str, k, k) \in {SubSeq(Small, j, j), SubSeq(Capital, j, j)}
        IN  IF Spells(c.arg, "sangon") THEN c.ret = [ok |-> TRUE, value |-> "Sangon"]
            ELSE IF Spells(c.arg, "ruibio") THEN c.ret = [ok |-> TRUE, value |-> "Ruibio"]
            ELSE IF Spells(c.arg, "genewiz") THEN c.ret = [ok |-> TRUE, value |-> "Genewiz"]
            ELSE c.ret = [ok |-> FALSE, value |-> "Unknown vendor: " \o c.arg]

\* C15 witness: a mixed-case spelling of genewiz was parsed and accepted.
C15_MixedCaseAccepted ==
    /\ IsSome(last_call)
    /\ Unwrap(last_call).call = "Vendor::from_str"
    /\ Unwrap(last_call).arg = "GenEwiz"
    /\ Unwrap(last_call).ret.ok

\* C16: Enter in VendorSelection selects the vendor at the highlighted index,
\* appends to the registry, in input order, one entry new(path, vendor) for
\* every pending filename that is not registered yet, and enters PrimerRename
\* with an override map built afresh: one key per primer label of the
\* registry, no override, cursor on the first row, not editing.
C16_EnterSelectsAndDecomposes ==
    [][ (stage = "VendorSelection" /\ HandleKey("Press", "Enter")) =>
          LET v == Vendors[vendor_selection.highlighted + 1]
              n == Len(sanger_fns)
              Added == { i \in 1..Len(str_fns) :
                           /\ \A k \in 1..n : sanger_fns[k].filename # str_fns[i]
                           /\ \A j \in 1..(i - 1) : str_fns[j] # str_fns[i] }
          IN  /\ vendor_selection'.selected_vendor = <<v>>
              /\ stage' = "PrimerRename"
              /\ ~panicked'
              /\ Len(sanger_fns') = n + Cardinality(Added)
              /\ \A k \in 1..n : sanger_fns'[k] = sanger_fns[k]
              /\ \A i \in Added :
                    /\ sanger_fns'[n + Cardinality({j \in Added : j <= i})]
                          = new(str_fns[i], v)
                    /\ sanger_fns'[n + Cardinality({j \in Added : j <= i})].filename
                          = str_fns[i]
              /\ DOMAIN primer_rename'.rename_map
                    = { get_primer_name(sanger_fns'[k]) : k \in 1..Len(sanger_fns') }
              /\ \A key \in DOMAIN primer_rename'.rename_map :
                    primer_rename'.rename_map[key] = <<>>
              /\ primer_rename'.highlighted = 0
              /\ ~primer_rename'.editing
              /\ primer_rename'.current_input = "" ]_vars

\* C16 witness: Genewiz was committed over two distinct pending filenames;
\* the registry holds both in input order and the map has their two labels.
C16_TwoEntriesDecomposed ==
    /\ stage = "PrimerRename"
    /\ vendor_selection.selected_vendor = <<"Genewiz">>
    /\ Len(sanger_fns) = 2
    /\ sanger_fns[1].filename = "d/T-B_1.ab1"
    /\ sanger_fns[2] = new("d/T-BB_2.ab1", "Genewiz")
    /\ DOMAIN primer_rename.rename_map = {"B", "BB"}
    /\ ~primer_rename.editing

\* C17: whenever the wizard is past VendorSelection a vendor is selected, and
\* the decomposition on entering PrimerRename never fails for lack of one
\* (the only panic of the wizard is the month step of DateSelection).
C17_VendorSelectedPastFirstStage ==
    /\ stage \in {"PrimerRename", "TemplateRename", "DateSelection", "ConfirmRename"}
          => IsSome(vendor_selection.selected_vendor)
    /\ panicked => stage = "DateSelection"

\* C17 witness: the wizard stands in TemplateRename with Ruibio selected and
\* two entries decomposed.
C17_InTemplateRename ==
    /\ stage = "TemplateRename"
    /\ vendor_selection.selected_vendor = <<"Ruibio">>
    /\ Len(sanger_fns) = 2
    /\ ~panicked

\* C18: filenames_string_to_sanger with no vendor selected returns the error
\* "No vendor selected" whatever the pending list is, and leaves the registry
\* as it was.
C18_NoVendorIsAnError ==
    [][ (StringToSanger /\ vendor_selection.selected_vendor = <<>>) =>
          /\ Unwrap(last_call').ret = [ok |-> FALSE, value |-> "No vendor selected"]
          /\ sanger_fns' = sanger_fns ]_vars

\* C19: Esc or 'q' outside edit mode sets should_quit and changes nothing
\* else: stage, registry, the stages' maps, cursors and dates, and the disk
\* are as before.
C19_QuitChangesNothingElse ==
    [][ \A code \in {"Esc", "q"} :
          ( /\ ~(stage = "PrimerRename" /\ primer_rename.editing)
            /\ ~(stage = "TemplateRename" /\ template_rename.editing)
            /\ HandleKey("Press", code) )
          => /\ should_quit'
             /\ UNCHANGED <<stage, str_fns, sanger_fns, vendor_selection, primer_rename,
                            template_rename, date_selection, confirm_rename, panicked,
                            fs, moves>> ]_vars

\* C19 witness: the operator renamed a primer to "BB", left edit mode by the
\* commit, and quit from PrimerRename.
C19_QuitAfterRename ==
    /\ should_quit
    /\ stage = "PrimerRename"
    /\ ~primer_rename.editing
    /\ \E i \in 1..Len(sanger_fns) :
          sanger_fns[i].primer_name = "BB" /\ sanger_fns[i].filename = "d/T-B_1.ab1"

\* C20: in every state of the running wizard Esc is accepted without a panic;
\* outside edit mode it sets should_quit, and in edit mode it leaves edit
\* mode, so that a second Esc quits.
C20_QuitWithinTwoPresses ==
    /\ []( (~should_quit /\ ~panicked) =>
             ENABLED ( /\ HandleKey("Press", "Esc")
                       /\ ~panicked'
                       /\ \/ should_quit'
                          \/ /\ \/ stage = "PrimerRename" /\ primer_rename.editing
                                \/ stage = "TemplateRename" /\ template_rename.editing
                             /\ ~primer_rename'.editing
                             /\ ~template_rename'.editing ) )
    /\ [][ HandleKey("Press", "Esc") =>
             /\ ~panicked'
             /\ \/ should_quit'
                \/ /\ \/ stage = "PrimerRename" /\ primer_rename.editing
                      \/ stage = "TemplateRename" /\ template_rename.editing
                   /\ ~primer_rename'.editing
                   /\ ~template_rename'.editing ]_vars

\* C20 witness: the wizard is in PrimerRename edit mode with two characters
\* in the buffer, the state from which two presses are needed.
C20_EditingWithBuffer ==
    /\ ~should_quit
    /\ ~panicked
    /\ stage = "PrimerRename"
    /\ primer_rename.editing
    /\ primer_rename.current_input = "BB"

\* C21: immediately after every entry into PrimerRename (from VendorSelection
\* or by retreating from TemplateRename) the keys of the override map are
\* exactly the distinct current primer labels of the registry entries, one
\* key per label and not one per file, and every key maps to None.
C21_EntrySeedsOverrideMap ==
    [][ (stage # "PrimerRename" /\ stage' = "PrimerRename" /\ ~panicked')
        => /\ DOMAIN primer_rename'.rename_map =
                  { get_primer_name(sanger_fns'[i]) : i \in 1..Len(sanger_fns') }
           /\ \A k \in DOMAIN primer_rename'.rename_map :
                  primer_rename'.rename_map[k] = None ]_vars

\* PrimerRename entered with two files that share one primer label
C21_SharedLabelOneKey ==
    /\ stage = "PrimerRename"
    /\ ~panicked
    /\ Len(sanger_fns) = 2
    /\ get_primer_name(sanger_fns[1]) = get_primer_name(sanger_fns[2])
    /\ Cardinality(DOMAIN primer_rename.rename_map) = 1
    /\ \A k \in DOMAIN primer_rename.rename_map : primer_rename.rename_map[k] = None

\* C22: an override commit in PrimerRename preserves label sharing: two
\* registry entries that carry the same primer label before the commit carry
\* the same primer label after it, and the number of distinct primer labels
\* in the registry does not increase.
C22_CommitPreservesSharing ==
    [][ (stage = "PrimerRename" /\ primer_rename.editing
            /\ HandleKey("Press", "Enter"))
        => /\ Len(sanger_fns') = Len(sanger_fns)
           /\ \A i, j \in 1..Len(sanger_fns) :
                  get_primer_name(sanger_fns[i]) = get_primer_name(sanger_fns[j])
                      => get_primer_name(sanger_fns'[i]) = get_primer_name(sanger_fns'[j])
           /\ Cardinality({ get_primer_name(sanger_fns'[i]) : i \in 1..Len(sanger_fns') })
                  <= Cardinality({ get_primer_name(sanger_fns[i]) : i \in 1..Len(sanger_fns) })
      ]_vars

\* two files that shared the only key of the map both carry its override
C22_GroupOverridden ==
    /\ stage = "PrimerRename"
    /\ ~primer_rename.editing
    /\ Len(sanger_fns) = 2
    /\ Cardinality(DOMAIN primer_rename.rename_map) = 1
    /\ \E k \in DOMAIN primer_rename.rename_map :
          /\ IsSome(primer_rename.rename_map[k])
          /\ \A i \in 1..2 :
                 /\ get_primer_name(sanger_fns[i]) = Unwrap(primer_rename.rename_map[k])
                 /\ get_primer_name(sanger_fns[i]) # k

\* C23: when the primer label X that the vendor's rule extracts for an entry
\* has been overridden to Y for every entry that carried it, then on the next
\* entry into PrimerRename the override map has key Y and no key X, all its
\* values are None, and X is held nowhere in the wizard state: it is no
\* entry's label and neither a key nor a value of the override map.
C23_ReentrySeedsFromOverrides ==
    [][ (stage # "PrimerRename" /\ stage' = "PrimerRename" /\ ~panicked')
        => \A i \in 1..Len(sanger_fns') :
              LET X == get_primer_name(new(sanger_fns'[i].filename, sanger_fns'[i].vendor))
                  Y == get_primer_name(sanger_fns'[i])
                  map == primer_rename'.rename_map
              IN  (/\ X # Y
                   /\ \A j \in 1..Len(sanger_fns') : get_primer_name(sanger_fns'[j]) # X)
                  => /\ Y \in DOMAIN map
                     /\ X \notin DOMAIN map
                     /\ \A k \in DOMAIN map : map[k] = None
                     /\ \A j \in 1..Len(sanger_fns') : sanger_fns'[j].primer_name # X
      ]_vars

\* PrimerRename entered again, by way of TemplateRename, after the label the
\* vendor's rule extracts for an entry was overridden on every entry
C23_ReenteredAfterOverride ==
    /\ stage = "PrimerRename"
    /\ ~panicked
    /\ DOMAIN template_rename.rename_map # {}
    /\ \A k \in DOMAIN primer_rename.rename_map : primer_rename.rename_map[k] = None
    /\ \E i \in 1..Len(sanger_fns) :
          LET X == get_primer_name(new(sanger_fns[i].filename, sanger_fns[i].vendor))
          IN  /\ get_primer_name(sanger_fns[i]) # X
              /\ \A j \in 1..Len(sanger_fns) : get_primer_name(sanger_fns[j]) # X
              /\ X \notin DOMAIN primer_rename.rename_map

C25_PrimerBrowseNavigation ==
    [][ (stage = "PrimerRename" /\ ~primer_rename.editing)
        => /\ (HandleKey("Press", "Tab") \/ HandleKey("Press", "n"))
              => stage' = "TemplateRename" /\ sanger_fns' = sanger_fns
           /\ (HandleKey("Press", "BackTab") \/ HandleKey("Press", "p"))
              => /\ stage' = "VendorSelection"
                 /\ vendor_selection'.highlighted = 0
                 /\ vendor_selection'.selected_vendor = None
                 /\ sanger_fns' = sanger_fns
      ]_vars

\* back in VendorSelection from PrimerRename: the registry is filled, no
\* vendor is selected and TemplateRename was never entered
C25_RetreatedToVendorSelection ==
    /\ stage = "VendorSelection"
    /\ Len(sanger_fns) > 0
    /\ vendor_selection.highlighted = 0
    /\ vendor_selection.selected_vendor = None
    /\ template_rename.rename_map = <<>>
    /\ \E i \in 1..Len(sanger_fns) : sanger_fns[i].vendor # Vendors[1]

\* C26: pressing BackTab or 'p' in ConfirmRename moves the wizard to
\* DateSelection, the immediately preceding stage, and changes no registry
\* entry.
C26_ConfirmRetreatsToDateSelection ==
    [][ (ConfirmKey("Press", "BackTab") \/ ConfirmKey("Press", "p"))
        => /\ ~panicked'
           /\ transition' = PreviousT("DateSelection")
           /\ sanger_fns' = sanger_fns ]_vars

\* C27: pressing Enter in DateSelection sets the capture date of every
\* registry entry to the currently selected date, leaves every template and
\* primer label unchanged and keeps the wizard in DateSelection; an entry
\* that carries a date carries one after every later key event.
C27_EnterStampsSelectedDate ==
    [][ /\ (stage = "DateSelection" /\ HandleKey("Press", "Enter"))
           => /\ stage' = "DateSelection"
              /\ ~should_quit'
              /\ Len(sanger_fns') = Len(sanger_fns)
              /\ \A i \in 1..Len(sanger_fns) :
                     /\ sanger_fns'[i].date = Some(date_selection.selected_date)
                     /\ get_template_name(sanger_fns'[i]) = get_template_name(sanger_fns[i])
                     /\ get_primer_name(sanger_fns'[i]) = get_primer_name(sanger_fns[i])
        /\ \A i \in 1..Len(sanger_fns) :
               IsSome(sanger_fns[i].date)
                   => i <= Len(sanger_fns') /\ IsSome(sanger_fns'[i].date)
      ]_vars

\* two entries stamped with the selected date, the day before today
C27_StampedYesterday ==
    /\ stage = "DateSelection"
    /\ ~panicked
    /\ Len(sanger_fns) = 2
    /\ date_selection.selected_date = add_days(today, -1)
    /\ \A i \in 1..2 : sanger_fns[i].date = Some(date_selection.selected_date)

\* C28: an entry's standardized name is built from its stamped capture date
\* whenever one is set and from the current local date only while the date
\* is unset (years from 0 on: yy mm dd of that date, a dot, the template
\* label, a dot, the primer label), so an entry that was never stamped gets
\* today's date in its target name.
C28_NameUsesStampElseToday ==
    \A i \in 1..Len(sanger_fns) :
        LET sf == sanger_fns[i]
            dt == IF IsSome(sf.date) THEN Unwrap(sf.date) ELSE today
            TwoDigits(n) == Digit(n \div 10) \o Digit(n % 10)
        IN  dt.year >= 0
            => get_standardized_name(sf, today)
                  = TwoDigits(dt.year % 100) \o TwoDigits(dt.month) \o TwoDigits(dt.day)
                    \o "." \o get_template_name(sf) \o "." \o get_primer_name(sf)

\* an entry that was never stamped has been moved to a name that carries
\* today's date
C28_MovedUnstamped ==
    /\ Len(sanger_fns) = 1
    /\ sanger_fns[1].date = None
    /\ today = Date(2025, 1, 31)
    /\ Len(moves) = 1
    /\ moves[1].ok
    /\ moves[1].to = "d/250131.T.B.ab1"

\* C29: in PrimerRename edit mode, Enter with an empty buffer while the
\* cursor is on key K sets the override-map value of K to None and leaves
\* the primer label of every entry currently labelled K unchanged; the stage
\* then is out of edit mode with an empty buffer.
C29_EmptyCommitClearsOverride ==
    [][ (/\ stage = "PrimerRename"
         /\ primer_rename.editing
         /\ primer_rename.current_input = ""
         /\ primer_rename.highlighted < Len(primer_rename.order)
         /\ HandleKey("Press", "Enter"))
        => LET K == primer_rename.order[primer_rename.highlighted + 1]
           IN  /\ stage' = "PrimerRename"
               /\ K \in DOMAIN primer_rename'.rename_map
               /\ primer_rename'.rename_map[K] = None
               /\ \A i \in 1..Len(sanger_fns) :
                      get_primer_name(sanger_fns[i]) = K
                          => get_primer_name(sanger_fns'[i]) = K
               /\ primer_rename'.editing = FALSE
               /\ primer_rename'.current_input = ""
      ]_vars

\* the override of key "B" was committed as "BB" and then cleared again by a
\* commit of the emptied buffer: the entry keeps the label "BB"
C29_OverrideCleared ==
    /\ stage = "PrimerRename"
    /\ ~primer_rename.editing
    /\ "B" \in DOMAIN primer_rename.rename_map
    /\ primer_rename.rename_map["B"] = None
    /\ \E i \in 1..Len(sanger_fns) :
          /\ get_primer_name(new(sanger_fns[i].filename, sanger_fns[i].vendor)) = "B"
          /\ get_primer_name(sanger_fns[i]) = "BB"

\* C30: in PrimerRename edit mode Esc leaves edit mode and clears the buffer
\* without changing the override map or any registry entry, whatever was
\* typed; it does not quit the wizard.
C30_EscCancelsEdit ==
    [][ (stage = "PrimerRename" /\ primer_rename.editing /\ HandleKey("Press", "Esc"))
        => /\ primer_rename'.editing = FALSE
           /\ primer_rename'.current_input = ""
           /\ primer_rename'.rename_map = primer_rename.rename_map
           /\ primer_rename'.highlighted = primer_rename.highlighted
           /\ sanger_fns' = sanger_fns
           /\ stage' = "PrimerRename"
           /\ ~should_quit'
      ]_vars

\* edit mode on a key that has no override, with text typed: the state Esc
\* is pressed in
C30_TypedWithoutOverride ==
    /\ stage = "PrimerRename"
    /\ ~should_quit
    /\ primer_rename.editing
    /\ primer_rename.current_input = "B"
    /\ Cardinality(DOMAIN primer_rename.rename_map) = 2
    /\ \A k \in DOMAIN primer_rename.rename_map : primer_rename.rename_map[k] = None

\* C31: pressing Enter in PrimerRename browse mode with the cursor on key K
\* enters edit mode with the buffer equal to the override stored for K, or
\* the empty string if K has no override; the override map and the registry
\* are unchanged by this key.
C31_EnterPrefillsBuffer ==
    [][ (/\ stage = "PrimerRename"
         /\ ~primer_rename.editing
         /\ primer_rename.highlighted < Len(primer_rename.order)
         /\ HandleKey("Press", "Enter"))
        => LET K == primer_rename.order[primer_rename.highlighted + 1]
           IN  /\ primer_rename'.editing = TRUE
               /\ primer_rename'.current_input =
                      IF primer_rename.rename_map[K] = None THEN ""
                      ELSE primer_rename.rename_map[K][1]
               /\ primer_rename'.rename_map = primer_rename.rename_map
               /\ primer_rename'.highlighted = primer_rename.highlighted
               /\ sanger_fns' = sanger_fns
               /\ stage' = "PrimerRename"
      ]_vars

\* edit mode entered on the second key of the map, whose override "B" fills
\* the buffer
C31_PrefilledOnSecondKey ==
    /\ stage = "PrimerRename"
    /\ primer_rename.editing
    /\ primer_rename.highlighted = 1
    /\ Len(primer_rename.order) = 2
    /\ primer_rename.rename_map[primer_rename.order[2]] = <<"B">>
    /\ primer_rename.current_input = "B"

\* C32: the highlighted index of VendorSelection is always in {0, 1, 2}; Left
\* (or 'h') from 0 goes to 2 and otherwise steps down by one, Right (or 'l')
\* from 2 goes to 0 and otherwise steps up by one; each undoes the other, and
\* neither changes the selected vendor, the stage or the registry.
C32_HighlightWrapsAround ==
    /\ [](/\ vendor_selection.highlighted \in {0, 1, 2}
          /\ stage = "VendorSelection"
             => /\ \A code \in {"Left", "h"} :
                      LET r == VendorSelection_handle_key(vendor_selection, code)
                      IN  /\ r[1].highlighted =
                                IF vendor_selection.highlighted = 0 THEN 2
                                ELSE vendor_selection.highlighted - 1
                          /\ r[1].selected_vendor = vendor_selection.selected_vendor
                          /\ r[2] = Stay
                          /\ VendorSelection_handle_key(r[1], "Right")[1] = vendor_selection
                          /\ VendorSelection_handle_key(r[1], "l")[1] = vendor_selection
                /\ \A code \in {"Right", "l"} :
                      LET r == VendorSelection_handle_key(vendor_selection, code)
                      IN  /\ r[1].highlighted =
                                IF vendor_selection.highlighted = 2 THEN 0
                                ELSE vendor_selection.highlighted + 1
                          /\ r[1].selected_vendor = vendor_selection.selected_vendor
                          /\ r[2] = Stay
                          /\ VendorSelection_handle_key(r[1], "Left")[1] = vendor_selection
                          /\ VendorSelection_handle_key(r[1], "h")[1] = vendor_selection)
    /\ [][ (/\ stage = "VendorSelection"
             /\ \E code \in {"Left", "h", "Right", "l"} : HandleKey("Press", code))
            => /\ vendor_selection'.highlighted # vendor_selection.highlighted
               /\ vendor_selection'.selected_vendor = vendor_selection.selected_vendor
               /\ stage' = stage
               /\ sanger_fns' = sanger_fns
               /\ ~should_quit'
          ]_vars

\* back in VendorSelection with a filled registry, the cursor moved to the
\* last vendor
C32_CursorOnLastVendor ==
    /\ stage = "VendorSelection"
    /\ Len(sanger_fns) > 0
    /\ vendor_selection.highlighted = 2
    /\ vendor_selection.selected_vendor = None

\* C33: in DateSelection Right/'l' and Left/'h' move the selected date by +1
\* and -1 day, Down/'j' and Up/'k' by +7 and -7 days, to a valid calendar
\* date also across the ends of months and years; a key followed by its
\* opposite returns to the starting date; none of these keys changes the
\* stage or a registry entry.
C33_DayAndWeekSteps ==
    /\ [](LET Step == [Right |-> 1, l |-> 1, Left |-> -1, h |-> -1,
                       Down |-> 7, j |-> 7, Up |-> -7, k |-> -7]
              \* the number of the day, counted through the years
              DayNumber(dt) ==
                  LET a == (14 - dt.month) \div 12
                      y == dt.year + 4800 - a
                      m == dt.month + 12 * a - 3
                  IN  dt.day + ((153 * m + 2) \div 5) + 365 * y + (y \div 4)
                          - (y \div 100) + (y \div 400) - 32045
              Valid(dt) ==
                  /\ dt.month \in 1..12
                  /\ dt.day >= 1
                  /\ dt.day <= (IF dt.month \in {4, 6, 9, 11} THEN 30
                                ELSE IF dt.month # 2 THEN 31
                                ELSE IF dt.year % 4 = 0
                                        /\ (dt.year % 100 # 0 \/ dt.year % 400 = 0)
                                     THEN 29 ELSE 28)
          IN  (stage = "DateSelection" /\ ~panicked)
              => \A code \in DOMAIN Step :
                    LET r == DateSelection_handle_key(date_selection, sanger_fns, code)
                    IN  /\ ~r[4]
                        /\ r[3] = Stay
                        /\ r[2] = sanger_fns
                        /\ Valid(r[1].selected_date)
                        /\ DayNumber(r[1].selected_date)
                              = DayNumber(date_selection.selected_date) + Step[code]
                        /\ \A back \in DOMAIN Step :
                              Step[back] = 0 - Step[code]
                                  => DateSelection_handle_key(r[1], sanger_fns, back)[1]
                                        = date_selection)
    /\ [][ (\E code \in {"Right", "l", "Left", "h", "Down", "j", "Up", "k"} :
                DateKey("Press", code))
            => /\ stage' = stage
               /\ sanger_fns' = sanger_fns
               /\ date_selection'.selected_date # date_selection.selected_date
               /\ ~should_quit' /\ ~panicked'
          ]_vars

\* on the last day of 2024 the date was moved a day on, into 2025, stamped
\* on the entries, and moved a day back
C33_BackFromNewYear ==
    /\ stage = "DateSelection"
    /\ today = Date(2024, 12, 31)
    /\ date_moves = 2
    /\ date_selection.selected_date = today
    /\ \A i \in 1..Len(sanger_fns) : sanger_fns[i].date = Some(Date(2025, 1, 1))

\* C34: the month-step keys of DateSelection are total: from every selected
\* date, the 29th, 30th and 31st of a month included, 'n'/Tab and
\* 'p'/BackTab yield a valid calendar date in the following and the
\* preceding month, the year going up after December and down before
\* January, and the wizard never aborts.
C34_MonthStepsAreTotal ==
    /\ ~panicked
    /\ stage = "DateSelection"
       => \A code \in {"n", "Tab", "p", "BackTab"} :
             LET dt == date_selection.selected_date
                 r == DateSelection_handle_key(date_selection, sanger_fns, code)
                 to == r[1].selected_date
                 fwd == code \in {"n", "Tab"}
             IN  /\ ~r[4]
                 /\ to.month = IF fwd THEN (IF dt.month = 12 THEN 1 ELSE dt.month + 1)
                                ELSE (IF dt.month = 1 THEN 12 ELSE dt.month - 1)
                 /\ to.year = IF fwd /\ dt.month = 12 THEN dt.year + 1
                               ELSE IF ~fwd /\ dt.month = 1 THEN dt.year - 1
                               ELSE dt.year
                 /\ to.day >= 1
                 /\ to.day <= (IF to.month \in {4, 6, 9, 11} THEN 30
                               ELSE IF to.month # 2 THEN 31
                               ELSE IF to.year % 4 = 0
                                       /\ (to.year % 100 # 0 \/ to.year % 400 = 0)
                                    THEN 29 ELSE 28)

\* C35: while PrimerRename is in edit mode no key press changes the stage or
\* sets should_quit: every key, Tab, BackTab and Esc included, returns Stay;
\* the characters 'q', 'n', 'p', 'j', 'k' are appended to the buffer and
\* change nothing else; Backspace on an empty buffer changes nothing.
C35_EditModeCapturesKeys ==
    /\ []((stage = "PrimerRename" /\ primer_rename.editing)
          => /\ \A code \in KeyCodes :
                   \A r \in PrimerRename_handle_key(primer_rename, sanger_fns, code) :
                       r[3] = Stay
             /\ \A c \in {"q", "n", "p", "j", "k"} :
                   PrimerRename_handle_key(primer_rename, sanger_fns, c)
                      = { << [primer_rename EXCEPT
                                 !.current_input = primer_rename.current_input \o c],
                             sanger_fns, Stay >> }
             /\ primer_rename.current_input = ""
                   => PrimerRename_handle_key(primer_rename, sanger_fns, "Backspace")
                         = { <<primer_rename, sanger_fns, Stay>> })
    /\ [][ (stage = "PrimerRename" /\ primer_rename.editing)
            => stage' = "PrimerRename" /\ ~should_quit' ]_vars

\* edit mode on a key that has an override, the pre-filled buffer emptied
\* with Backspace
C35_BufferEmptied ==
    /\ stage = "PrimerRename"
    /\ primer_rename.editing
    /\ primer_rename.current_input = ""
    /\ primer_rename.highlighted < Len(primer_rename.order)
    /\ primer_rename.rename_map[primer_rename.order[primer_rename.highlighted + 1]] # None

\* C36: in every reachable state of PrimerRename the cursor satisfies
\* 0 <= highlighted <= max(0, number of override-map keys - 1); Up at the
\* first key and Down at the last key change nothing; the keys of the map do
\* not change between entry into the stage and exit from it; so the cursor
\* designates an existing key whenever the map is non-empty.
C36_CursorWithinKeys ==
    /\ []((stage = "PrimerRename" /\ ~panicked)
          => LET n == Cardinality(DOMAIN primer_rename.rename_map)
                 h == primer_rename.highlighted
             IN  /\ h >= 0
                 /\ h <= (IF n = 0 THEN 0 ELSE n - 1)
                 /\ Len(primer_rename.order) = n
                 /\ n > 0 => primer_rename.order[h + 1] \in DOMAIN primer_rename.rename_map
                 /\ (~primer_rename.editing /\ h = 0)
                       => \A code \in {"Up", "k"} :
                             PrimerRename_handle_key(primer_rename, sanger_fns, code)
                                = { <<primer_rename, sanger_fns, Stay>> }
                 /\ (~primer_rename.editing /\ h = (IF n = 0 THEN 0 ELSE n - 1))
                       => \A code \in {"Down", "j"} :
                             PrimerRename_handle_key(primer_rename, sanger_fns, code)
                                = { <<primer_rename, sanger_fns, Stay>> })
    /\ [][ (stage = "PrimerRename" /\ stage' = "PrimerRename" /\ ~panicked')
            => DOMAIN primer_rename'.rename_map = DOMAIN primer_rename.rename_map ]_vars

\* an override committed on the last of two keys
C36_CommittedOnLastKey ==
    /\ stage = "PrimerRename"
    /\ ~primer_rename.editing
    /\ Len(primer_rename.order) = 2
    /\ primer_rename.highlighted = 1
    /\ primer_rename.rename_map[primer_rename.order[2]] # None
    /\ primer_rename.rename_map[primer_rename.order[1]] = None

\* C37: in every reachable state of PrimerRename editing = false implies that
\* the edit buffer is empty: what was typed in an edit session does not
\* survive into browse mode or the next session, whether the session ended
\* by a commit or by a cancel.
C37_BrowseModeBufferEmpty ==
    /\ []((stage = "PrimerRename" /\ ~primer_rename.editing)
          => primer_rename.current_input = "")
    /\ [][ (stage = "PrimerRename" /\ primer_rename.editing /\ ~primer_rename'.editing)
            => primer_rename'.current_input = "" ]_vars

\* browse mode after a session that typed "BB" and committed it on one of
\* two keys
C37_BackInBrowseMode ==
    /\ stage = "PrimerRename"
    /\ ~primer_rename.editing
    /\ primer_rename.current_input = ""
    /\ Len(primer_rename.order) = 2
    /\ \E k \in DOMAIN primer_rename.rename_map : primer_rename.rename_map[k] = <<"BB">>

\* C38: a primer override commit changes only primer labels: the registry
\* keeps the same entries in the same order, and for every entry the full
\* path, the vendor, the template label and the capture date are unchanged.
C38_CommitTouchesOnlyPrimer ==
    /\ [](\A buf \in {"", "B", "BB"} :
            \A r \in primer_commit([primer_rename EXCEPT !.editing = TRUE,
                                                         !.current_input = buf],
                                    sanger_fns) :
                /\ Len(r[2]) = Len(sanger_fns)
                /\ \A i \in 1..Len(sanger_fns) :
                       /\ get_full_path(r[2][i]) = get_full_path(sanger_fns[i])
                       /\ r[2][i].vendor = sanger_fns[i].vendor
                       /\ get_template_name(r[2][i]) = get_template_name(sanger_fns[i])
                       /\ r[2][i].date = sanger_fns[i].date)
    /\ [][ (stage = "PrimerRename" /\ primer_rename.editing /\ HandleKey("Press", "Enter"))
            => /\ Len(sanger_fns') = Len(sanger_fns)
               /\ \A i \in 1..Len(sanger_fns) :
                      /\ get_full_path(sanger_fns'[i]) = get_full_path(sanger_fns[i])
                      /\ sanger_fns'[i].vendor = sanger_fns[i].vendor
                      /\ get_template_name(sanger_fns'[i]) = get_template_name(sanger_fns[i])
                      /\ sanger_fns'[i].date = sanger_fns[i].date
          ]_vars

\* a primer override committed on an entry whose template label had been
\* overridden before
C38_PrimerAfterTemplateOverride ==
    /\ stage = "PrimerRename"
    /\ ~primer_rename.editing
    /\ \E k \in DOMAIN primer_rename.rename_map : primer_rename.rename_map[k] # None
    /\ \E i \in 1..Len(sanger_fns) :
          LET fresh == new(sanger_fns[i].filename, sanger_fns[i].vendor)
          IN  /\ get_template_name(sanger_fns[i]) # get_template_name(fresh)
              /\ get_primer_name(sanger_fns[i]) # get_primer_name(fresh)

\* C39: get_primer_name (and likewise get_template_name) returns the stored
\* label when it is non-empty and otherwise the vendor's extraction from the
\* path; so after set_primer_name(s) with a non-empty s the getter returns
\* s, while set_primer_name("") gives no empty label but the primer the
\* vendor's rule extracts.
C39_GetterFallsBackToExtraction ==
    /\ [](\A i \in 1..Len(sanger_fns) :
            LET sf == sanger_fns[i]
                primer == IF sf.vendor = "Sangon" THEN extract_sangon_primer_name(sf)
                          ELSE IF sf.vendor = "Ruibio" THEN extract_ruibio_primer_name(sf)
                          ELSE extract_genewiz_primer_name(sf)
                template == IF sf.vendor = "Sangon" THEN extract_sangon_template_name(sf)
                            ELSE IF sf.vendor = "Ruibio"
                                 THEN extract_ruibio_template_name(sf)
                            ELSE extract_genewiz_template_name(sf)
            IN  /\ get_primer_name(sf) =
                      IF sf.primer_name # "" THEN sf.primer_name ELSE primer
                /\ get_template_name(sf) =
                      IF sf.template_name # "" THEN sf.template_name ELSE template
                /\ \A s \in LabelInputs :
                      /\ get_primer_name(set_primer_name(sf, s)) =
                            IF s # "" THEN s ELSE primer
                      /\ get_template_name(set_template_name(sf, s)) =
                            IF s # "" THEN s ELSE template
                /\ (sf.filename = "d/T-B_1.ab1" /\ sf.vendor = "Genewiz")
                      => /\ get_primer_name(set_primer_name(sf, "")) = "B"
                         /\ get_template_name(set_template_name(sf, "")) = "T")
    /\ [][ \A s \in LabelInputs :
              /\ FileSetPrimer(s) /\ s # "" => get_primer_name(sanger_fns'[1]) = s
              /\ FileSetTemplate(s) /\ s # "" => get_template_name(sanger_fns'[1]) = s
              /\ (/\ FileSetPrimer("")
                  /\ sanger_fns[1].vendor = "Genewiz"
                  /\ sanger_fns[1].filename = "d/T-B_1.ab1")
                    => get_primer_name(sanger_fns'[1]) = "B"
          ]_vars

\* the stored primer label was set to the empty string and the getter
\* returns the primer extracted from the file name
C39_EmptyLabelRestoresExtraction ==
    /\ Len(sanger_fns) = 1
    /\ sanger_fns[1].primer_name = ""
    /\ get_primer_name(sanger_fns[1]) = "B"

\* C40: the Genewiz decomposition is lossless when it succeeds: for every
\* stem that has a '_' and a '-' before its last '_', template ++ "-" ++
\* primer ++ "_" ++ vendor id equals the stem, the primer contains no '-'
\* and the vendor id contains no '_'.
C40_GenewizLossless ==
    \A i \in 1..Len(sanger_fns) :
        LET sf == sanger_fns[i]
            stem == get_file_stem(sf)
            Has(str, c) == \E k \in 1..Len(str) : SubSeq(str, k, k) = c
            DashBeforeLastUnderscore ==
                \E u \in 1..Len(stem) :
                    /\ SubSeq(stem, u, u) = "_"
                    /\ ~Has(SubSeq(stem, u + 1, Len(stem)), "_")
                    /\ Has(SubSeq(stem, 1, u - 1), "-")
        IN  (sf.vendor = "Genewiz" /\ DashBeforeLastUnderscore)
            => /\ get_template_name(sf) \o "-" \o get_primer_name(sf) \o "_"
                     \o get_vendor_id(sf) = stem
               /\ ~Has(get_primer_name(sf), "-")
               /\ ~Has(get_vendor_id(sf), "_")

\* a Genewiz entry with two dashes before its only underscore
C40_TwoDashes ==
    /\ Len(sanger_fns) = 1
    /\ sanger_fns[1].vendor = "Genewiz"
    /\ get_file_stem(sanger_fns[1]) = "--a_"
    /\ get_template_name(sanger_fns[1]) = "-"
    /\ get_primer_name(sanger_fns[1]) = "a"

====
